---- MODULE Spec2Model ----
(***************************************************************************)
(* Reference extraction of puripuri2100-research/eli (src/src/law.rs):     *)
(* parse_ref and the functions it drives -- find_law_name,                 *)
(* resolve_name_and_number, find_abb_def, find_douhou, find_joukou,        *)
(* resolve_duplicates and linking_abb_and_full_name.                       *)
(*                                                                         *)
(* A text is a sequence of characters, each character a string naming it   *)
(* (see "Characters" below).  Rust indexes the characters of a text from   *)
(* 0; CharAt(t, i) reads t[i + 1].                                         *)
(* Option<T> is a sequence of length at most one: None == <<>>,            *)
(* Some(x) == <<x>>.                                                       *)
(***************************************************************************)
EXTENDS Integers, Sequences, FiniteSets, TLC

VARIABLES
  pc,                    \* position of the driver of the function under check
  overflow_checks,       \* build profile: TRUE = arithmetic overflow panics
  text,                  \* the paragraph text a function scans
  law_map,               \* the name table, in the order its HashMap iterates
  law_name_list,         \* parse_ref: abbreviations linked in earlier paragraphs
  find_lst,              \* list argument of the function under check
  find,                  \* candidate / mention argument
  lst,                   \* list a function returns
  ret,                   \* other return value of the function under check
  main_provision,        \* egov_xml_parse: the parsed body of the document
  target,                \* parse_ref: the paragraph index of the document
  paragraph_list,        \* parse_ref: the sorted paragraphs
  idx,                   \* parse_ref: number of paragraphs processed
  find_law_name_result,  \* parse_ref: name-match list of each processed paragraph
  result                 \* parse_ref: the references emitted so far

vars == <<pc, overflow_checks, text, law_map, law_name_list, find_lst, find,
          lst, ret, main_provision, target, paragraph_list, idx,
          find_law_name_result, result>>

-----------------------------------------------------------------------------
(* Bounds of the model *)

\* largest character offset of a span in the list-level specifications
MaxPos == 4
\* longest list the list-level specifications build
MaxList == 3
\* most pieces of text that follow the mention in SpecJoukou
MaxPieces == 4
\* longest text SpecFindLawName scans
MaxTextLen == 4
\* most paragraphs of a document in Spec
MaxParagraphs == 2

-----------------------------------------------------------------------------
(* Option, sequences *)

None == <<>>
Some(x) == <<x>>
IsSome(o) == Len(o) = 1
Unwrap(o) == o[1]

CharAt(t, i) == t[i + 1]
\* t[a..b) with 0-based offsets
Slice(t, a, b) == SubSeq(t, a + 1, b)
EndsWith(t, suffix) ==
  /\ Len(suffix) <= Len(t)
  /\ SubSeq(t, Len(t) - Len(suffix) + 1, Len(t)) = suffix
RemoveAt(l, i) == SubSeq(l, 1, i) \o SubSeq(l, i + 2, Len(l))
Range(f) == {f[x] : x \in DOMAIN f}

-----------------------------------------------------------------------------
(* Data model *)

ArticleNumber(base, eda) == [base_number |-> base, eda_numbers |-> eda]

\* Law::new: every number and the paragraph text start as None
NewLaw(id) ==
  [law_id |-> id,
   part_number |-> None, chapter_number |-> None, section_number |-> None,
   subsection_number |-> None, division_number |-> None,
   article_number |-> None, paragraph_number |-> None,
   paragraph_text |-> None]

Position(s, e) == [start |-> s, end |-> e]

FindLawName(pos, match, l) ==
  [position |-> pos, match_string |-> match, find_law |-> l]

Find(to, from, pos) == [to |-> to, from |-> from, position |-> pos]

\* two spans share at least one character
Overlap(p, q) == p.start < q.end /\ q.start < p.end

NoOverlap(l) ==
  \A i, j \in 1..Len(l) : i # j => ~Overlap(l[i].position, l[j].position)

NoPartialOverlap(l) ==
  \A i, j \in 1..Len(l) :
    (i # j /\ Overlap(l[i].position, l[j].position))
      => l[i].position = l[j].position

-----------------------------------------------------------------------------
(* resolve_duplicates *)

RECURSIVE resolve_duplicates_loop(_, _, _, _, _)
resolve_duplicates_loop(fl, cand, i, acc, ok) ==
  IF i > Len(fl)
  THEN IF ~ok THEN Append(acc, cand) ELSE acc
  ELSE LET f == fl[i] IN
    IF ok
    THEN resolve_duplicates_loop(fl, cand, i + 1, Append(acc, f), ok)
    ELSE IF f.position.start = cand.position.start
            /\ f.position.end = cand.position.end
    THEN resolve_duplicates_loop(fl, cand, i + 1, Append(acc, cand), TRUE)
    ELSE IF f.position.start >= cand.position.start
            /\ f.position.end <= cand.position.end
    THEN resolve_duplicates_loop(fl, cand, i + 1, Append(acc, cand), TRUE)
    ELSE IF f.position.start <= cand.position.start
            /\ f.position.end >= cand.position.end
    THEN resolve_duplicates_loop(fl, cand, i + 1, Append(acc, f), TRUE)
    ELSE resolve_duplicates_loop(fl, cand, i + 1, Append(acc, f), ok)

resolve_duplicates(fl, cand) == resolve_duplicates_loop(fl, cand, 1, <<>>, FALSE)

-----------------------------------------------------------------------------
(* linking_abb_and_full_name *)

\* the same loop without the "farther than the one already found" test:
\* the last preceding entry of the list wins
RECURSIVE linking_loop_last(_, _, _, _)
linking_loop_last(abb_info, full, i, res) ==
  IF i > Len(full) THEN res
  ELSE IF full[i].position.end <= abb_info.position.start
       THEN linking_loop_last(abb_info, full, i + 1, Some(full[i]))
       ELSE linking_loop_last(abb_info, full, i + 1, res)

RECURSIVE linking_loop(_, _, _, _)
linking_loop(abb_info, full, i, res) ==
  IF i > Len(full) THEN res
  ELSE IF full[i].position.end <= abb_info.position.start
       THEN IF IsSome(res) /\ full[i].position.end < Unwrap(res).position.end
            THEN linking_loop(abb_info, full, i + 1, res)
            ELSE linking_loop(abb_info, full, i + 1, Some(full[i]))
       ELSE linking_loop(abb_info, full, i + 1, res)

\* linking that falls back on the last entry of the list when no entry
\* precedes the mention
linking_abb_and_full_name_or_last(abb_info, full_name_info_list) ==
  LET res == linking_loop(abb_info, full_name_info_list, 1, None) IN
    IF IsSome(res)
    THEN Some([abb_info EXCEPT !.find_law = Unwrap(res).find_law])
    ELSE IF full_name_info_list # <<>>
    THEN Some([abb_info EXCEPT !.find_law =
                 full_name_info_list[Len(full_name_info_list)].find_law])
    ELSE None

linking_abb_and_full_name(abb_info, full_name_info_list) ==
  LET res == linking_loop(abb_info, full_name_info_list, 1, None) IN
    IF IsSome(res)
    THEN Some([abb_info EXCEPT !.find_law = Unwrap(res).find_law])
    ELSE None

-----------------------------------------------------------------------------
(* Characters.  A character is named by a string:                          *)
(*   "hou" 法   "rei" 令   "soku" 則  "ki" 規    "jin" 人   "kata" 方      *)
(*   "dou" 同   "kyuu" 旧  "ritsu" 律 "dai" 第   "mei" 命   "sei" 政       *)
(*   "shou" 省  "fu" 府    "choku" 勅 "in" 院    "kai" 会   "gou" 号       *)
(*   "i" 以     "ka" 下    "[" 「     "]" 」     "(" （     ")" ）         *)
(*   "jou" 条   "kou" 項   "no" の    "NO" ノ    "1".."9" 一..九           *)
(*   "10" 十    "100" 百   "1000" 千  "hen" 編   "syou" 章  "setsu" 節     *)
(*   "kan" 款   "moku" 目  "min" 民   "tatoe" 例 "tei" 定   "." 。         *)
(*   "," 、     "a" the ASCII letter a;  "uXXXX" the character U+XXXX      *)

\* bytes of the UTF-8 encoding of a character: every character above is a
\* three-byte character, except the ASCII letter; "u00A7" (two bytes) and
\* "u20BB7" (four bytes) stand for the other two lengths
Utf8Len(c) ==
  CASE c = "a" -> 1
    [] c = "u00A7" -> 2
    [] c = "u20BB7" -> 4
    [] OTHER -> 3

RECURSIVE StrLen(_)
\* str::len: the length of a text in bytes
StrLen(t) == IF t = <<>> THEN 0 ELSE Utf8Len(Head(t)) + StrLen(Tail(t))

\* byte offset of the character at (0-based) character index i
ByteIndex(t, i) == StrLen(SubSeq(t, 1, i))

RECURSIVE byte_map_loop_without_terminal(_, _, _)
\* the loop without the entry for the terminal offset
byte_map_loop_without_terminal(t, i, acc) ==
  IF i > Len(t) THEN acc
  ELSE byte_map_loop_without_terminal(t, i + 1,
         acc \o <<i - 1>> \o [k \in 1..(Utf8Len(t[i]) - 1) |-> 0])

RECURSIVE byte_map_loop(_, _, _)
byte_map_loop(t, i, acc) ==
  IF i > Len(t) THEN Append(acc, Len(t))
  ELSE byte_map_loop(t, i + 1,
         acc \o <<i - 1>> \o [k \in 1..(Utf8Len(t[i]) - 1) |-> 0])

\* entry b + 1 of the sequence is map[b] of the code
byte_to_char_index_map(t) == byte_map_loop(t, 1, <<>>)

RECURSIVE match_indices_from(_, _, _)
\* str::match_indices: the non-overlapping occurrences of name, left to
\* right, each as the byte offset of its start
match_indices_from(t, name, i) ==
  IF i + Len(name) > Len(t) THEN <<>>
  ELSE IF Slice(t, i, i + Len(name)) = name
       THEN <<ByteIndex(t, i)>> \o match_indices_from(t, name, i + Len(name))
       ELSE match_indices_from(t, name, i + 1)

match_indices(t, name) == match_indices_from(t, name, 0)

-----------------------------------------------------------------------------
(* resolve_name_and_number *)

get_law_id(l) == l.law_id
\* Option::map(|l| l.get_law_id())
map_law_id(o) == IF IsSome(o) THEN Some(get_law_id(Unwrap(o))) ELSE None
abs_diff(a, b) == IF a >= b THEN a - b ELSE b - a
\* chars.get(i) == Some(&c)
CharIs(chars, i, c) == i < Len(chars) /\ CharAt(chars, i) = c

RECURSIVE remove_index_loop(_, _, _, _)
\* the list of indices (0-based) the first loop registers for removal
remove_index_loop(l, chars, i, acc) ==
  IF i >= Len(l) THEN acc
  ELSE
    LET law_name == l[i]
        next_law_name == l[i + 1]
        forward == law_name.position.end < next_law_name.position.start
        i2 == IF forward THEN i ELSE i - 1
        law1 == IF forward THEN law_name ELSE next_law_name
        law2 == IF forward THEN next_law_name ELSE law_name
        hit == /\ abs_diff(law1.position.end, law2.position.start) = 1
               /\ CharIs(chars, law1.position.end, "(")
               /\ map_law_id(law1.find_law) = map_law_id(law2.find_law)
               /\ ~EndsWith(law1.match_string, <<"gou">>)
               /\ EndsWith(law2.match_string, <<"gou">>)
    IN remove_index_loop(l, chars, i + 1,
                         IF hit THEN Append(acc, i2) ELSE acc)

RECURSIVE remove_loop(_, _, _)
\* Vec::remove for each registered index in turn; an index that is out of
\* range makes Vec::remove panic
remove_loop(l, remove_index, k) ==
  IF k > Len(remove_index) THEN [panic |-> FALSE, lst |-> l]
  ELSE IF remove_index[k] >= Len(l) THEN [panic |-> TRUE, lst |-> l]
  ELSE remove_loop(RemoveAt(l, remove_index[k]), remove_index, k + 1)

resolve_name_and_number(l, t) ==
  remove_loop(l, remove_index_loop(l, t, 1, <<>>), 1)

-----------------------------------------------------------------------------
(* find_law_name *)

\* the suppression rules without the rule for 法 followed by 令 or 律
is_universal_name_without_hourei(text_chars, name, start, end) ==
  LET n == Len(text_chars) IN
  \/ /\ name = <<"hou">>
     /\ start # 0
     /\ CharAt(text_chars, start - 1) \in {"kata", "dou", "kyuu"}
  \/ /\ EndsWith(name, <<"hou">>)
     /\ end < n - 1
     /\ CharAt(text_chars, end) = "jin"
  \/ /\ EndsWith(name, <<"hou">>)
     /\ end < n - 2
     /\ CharAt(text_chars, end) = "ritsu"
     /\ CharAt(text_chars, end + 1) = "dai"
  \/ /\ name = <<"rei">>
     /\ start # 0
     /\ CharAt(text_chars, start - 1) \in
          {"mei", "sei", "dou", "hou", "shou", "fu", "choku", "kyuu"}
  \/ /\ name = <<"rei">>
     /\ end < n - 1
     /\ CharAt(text_chars, end) = "dai"
     /\ start # 0
     /\ CharAt(text_chars, start - 1) \in {"shou", "sei", "choku", "fu"}
  \/ /\ EndsWith(name, <<"soku">>)
     /\ end < n - 1
     /\ CharAt(text_chars, end) = "dai"
     /\ start > 2
     /\ CharAt(text_chars, start - 1) = "ki"
     /\ CharAt(text_chars, start - 2) \in {"in", "kai"}
  \/ /\ end < n - 1
     /\ CharAt(text_chars, end) = "]"

\* the suppression rules of find_law_name; text_chars.len() is at least 1
\* here because the name has an occurrence
is_universal_name(text_chars, name, start, end) ==
  LET n == Len(text_chars) IN
  \/ /\ name = <<"hou">>
     /\ start # 0
     /\ CharAt(text_chars, start - 1) \in {"kata", "dou", "kyuu"}
  \/ /\ EndsWith(name, <<"hou">>)
     /\ end < n - 1
     /\ CharAt(text_chars, end) = "jin"
  \/ /\ name = <<"hou">>
     /\ end < n - 1
     /\ CharAt(text_chars, end) \in {"rei", "ritsu"}
  \/ /\ EndsWith(name, <<"hou">>)
     /\ end < n - 2
     /\ CharAt(text_chars, end) = "ritsu"
     /\ CharAt(text_chars, end + 1) = "dai"
  \/ /\ name = <<"rei">>
     /\ start # 0
     /\ CharAt(text_chars, start - 1) \in
          {"mei", "sei", "dou", "hou", "shou", "fu", "choku", "kyuu"}
  \/ /\ name = <<"rei">>
     /\ end < n - 1
     /\ CharAt(text_chars, end) = "dai"
     /\ start # 0
     /\ CharAt(text_chars, start - 1) \in {"shou", "sei", "choku", "fu"}
  \/ /\ EndsWith(name, <<"soku">>)
     /\ end < n - 1
     /\ CharAt(text_chars, end) = "dai"
     /\ start > 2
     /\ CharAt(text_chars, start - 1) = "ki"
     /\ CharAt(text_chars, start - 2) \in {"in", "kai"}
  \/ /\ end < n - 1
     /\ CharAt(text_chars, end) = "]"

\* text_chars.len() - 2 is a usize subtraction: for a text of one character
\* it overflows (a panic when overflow is checked) or wraps to a huge value,
\* and then text_chars[end] is read out of range (a panic as well)
name_check_panics(text_chars, name, start, end) ==
  EndsWith(name, <<"hou">>) /\ Len(text_chars) < 2

RECURSIVE find_law_name_matches(_, _, _, _, _, _, _)
\* the inner loop: the occurrences ms[k..] of one name
find_law_name_matches(t, byte_to_char_map, name, l, ms, k, acc) ==
  IF k > Len(ms) \/ acc.panic THEN acc
  ELSE
    LET start == byte_to_char_map[ms[k] + 1]
        end == byte_to_char_map[ms[k] + StrLen(name) + 1]
        found == FindLawName(Position(start, end), name, Some(l))
    IN IF name_check_panics(t, name, start, end)
       THEN [acc EXCEPT !.panic = TRUE]
       ELSE find_law_name_matches(t, byte_to_char_map, name, l, ms, k + 1,
              IF is_universal_name(t, name, start, end)
              THEN acc
              ELSE [acc EXCEPT !.lst = resolve_duplicates(acc.lst, found)])

RECURSIVE find_law_name_names(_, _, _, _, _)
\* the outer loop over v1
find_law_name_names(t, byte_to_char_map, v1, i, acc) ==
  IF i > Len(v1) \/ acc.panic THEN acc
  ELSE find_law_name_names(t, byte_to_char_map, v1, i + 1,
         find_law_name_matches(t, byte_to_char_map, v1[i][1], v1[i][2],
                               match_indices(t, v1[i][1]), 1, acc))

\* v1 without the abbreviations of the earlier paragraphs
name_list_without_abbreviations(map, fl) == map

\* v1: the entries of the name table, then the abbreviations found so far
name_list(map, fl) ==
  map \o [k \in 1..Len(fl) |-> <<fl[k].match_string, Unwrap(fl[k].find_law)>>]

find_law_name(t, map, fl) ==
  LET scanned == find_law_name_names(t, byte_to_char_index_map(t),
                                     name_list(map, fl), 1,
                                     [panic |-> FALSE, lst |-> <<>>])
  IN IF scanned.panic THEN scanned
     ELSE resolve_name_and_number(scanned.lst, t)

-----------------------------------------------------------------------------
(* find_abb_def, find_douhou *)

\* index (0-based) of the first "]" at or after i, or Len(t) if there is none
RECURSIVE first_close(_, _)
first_close(t, i) ==
  IF i >= Len(t) \/ CharAt(t, i) = "]" THEN i ELSE first_close(t, i + 1)

RECURSIVE abb_re_find_iter(_, _)
\* Regex "i ka [ ( [^]]* (hou | rei | ki soku) ) ]": the non-overlapping
\* matches left to right, each as <<m.start(), m.end()>> in bytes
abb_re_find_iter(t, i) ==
  IF i + 3 > Len(t) THEN <<>>
  ELSE
    LET q == first_close(t, i + 3)
        body == Slice(t, i + 3, q)
    IN IF /\ Slice(t, i, i + 3) = <<"i", "ka", "[">>
          /\ q < Len(t)
          /\ \/ EndsWith(body, <<"hou">>)
             \/ EndsWith(body, <<"rei">>)
             \/ EndsWith(body, <<"ki", "soku">>)
       THEN <<<<ByteIndex(t, i), ByteIndex(t, q + 1)>>>> \o abb_re_find_iter(t, q + 1)
       ELSE abb_re_find_iter(t, i + 1)

RECURSIVE find_abb_def_loop(_, _, _, _, _)
find_abb_def_loop(t, byte_to_char_map, ms, k, acc) ==
  IF k > Len(ms) THEN acc
  ELSE
    LET start == byte_to_char_map[ms[k][1] + StrLen(<<"i", "ka", "[">>) + 1]
        end == byte_to_char_map[ms[k][2] - StrLen(<<"]">>) + 1]
        abb == Slice(t, start, end)
        found == FindLawName(Position(start, end), abb, None)
    IN find_abb_def_loop(t, byte_to_char_map, ms, k + 1,
         IF ~(EndsWith(abb, <<"kata", "hou">>) \/ EndsWith(abb, <<"mei", "rei">>))
         THEN resolve_duplicates(acc, found)
         ELSE acc)

find_abb_def(t) ==
  find_abb_def_loop(t, byte_to_char_index_map(t), abb_re_find_iter(t, 0), 1, <<>>)

RECURSIVE douhou_re_find_iter(_, _)
\* Regex "dou hou | dou rei"
douhou_re_find_iter(t, i) ==
  IF i + 2 > Len(t) THEN <<>>
  ELSE IF Slice(t, i, i + 2) \in {<<"dou", "hou">>, <<"dou", "rei">>}
       THEN <<<<ByteIndex(t, i), ByteIndex(t, i + 2)>>>> \o douhou_re_find_iter(t, i + 2)
       ELSE douhou_re_find_iter(t, i + 1)

RECURSIVE find_douhou_loop(_, _, _, _, _)
find_douhou_loop(t, byte_to_char_map, ms, k, acc) ==
  IF k > Len(ms) THEN acc
  ELSE
    LET start == byte_to_char_map[ms[k][1] + 1]
        end == byte_to_char_map[ms[k][2] + 1]
        n == Len(t)
        found == FindLawName(Position(start, end), Slice(t, start, end), None)
    IN find_douhou_loop(t, byte_to_char_map, ms, k + 1,
         IF ~(\/ (end < n - 1 /\ CharAt(t, end) = "jin")
              \/ (end < n - 2 /\ CharAt(t, end) = "ritsu"
                              /\ CharAt(t, end + 1) = "dai"))
         THEN Append(acc, found)
         ELSE acc)

find_douhou(t) ==
  find_douhou_loop(t, byte_to_char_index_map(t), douhou_re_find_iter(t, 0), 1, <<>>)

-----------------------------------------------------------------------------
(* parse_article_number (crate japanese_law_xml_schema): a numeral          *)
(* "dai <number> <classifier> (no <number>)*" gives the base number and     *)
(* the branch numbers                                                       *)

KanjiDigits == {"1", "2", "3", "4", "5", "6", "7", "8", "9"}
KanjiUnits == {"10", "100", "1000"}
Classifiers == {"jou", "kou", "hen", "syou", "setsu", "kan", "moku"}

DigitValue(c) ==
  CASE c = "1" -> 1 [] c = "2" -> 2 [] c = "3" -> 3 [] c = "4" -> 4
    [] c = "5" -> 5 [] c = "6" -> 6 [] c = "7" -> 7 [] c = "8" -> 8
    [] c = "9" -> 9
UnitValue(c) == CASE c = "10" -> 10 [] c = "100" -> 100 [] c = "1000" -> 1000

RECURSIVE KanjiNumber(_, _, _)
\* value of a run of kanji digits and units, e.g. 2 10 3 = 23
KanjiNumber(cs, acc, cur) ==
  IF cs = <<>> THEN acc + cur
  ELSE IF Head(cs) \in KanjiDigits
       THEN KanjiNumber(Tail(cs), acc, DigitValue(Head(cs)))
       ELSE KanjiNumber(Tail(cs),
                        acc + (IF cur = 0 THEN 1 ELSE cur) * UnitValue(Head(cs)), 0)

RECURSIVE NumeralPrefixLen(_)
NumeralPrefixLen(cs) ==
  IF cs # <<>> /\ Head(cs) \in KanjiDigits \cup KanjiUnits
  THEN 1 + NumeralPrefixLen(Tail(cs))
  ELSE 0

RECURSIVE parse_eda_numbers(_)
\* Some(branch numbers), or None when the rest is not "(no <number>)*"
parse_eda_numbers(cs) ==
  IF cs = <<>> THEN Some(<<>>)
  ELSE
    LET k == NumeralPrefixLen(Tail(cs))
        rest == parse_eda_numbers(SubSeq(cs, k + 2, Len(cs)))
    IN IF Head(cs) \in {"no", "NO"} /\ k > 0 /\ IsSome(rest)
       THEN Some(<<KanjiNumber(SubSeq(cs, 2, k + 1), 0, 0)>> \o Unwrap(rest))
       ELSE None

parse_article_number(s2) ==
  IF s2 = <<>> \/ Head(s2) # "dai" THEN None
  ELSE
    LET a == Tail(s2)
        k == NumeralPrefixLen(a)
    IN IF k = 0 \/ k >= Len(a) THEN None
       ELSE IF a[k + 1] \notin Classifiers THEN None
       ELSE LET eda == parse_eda_numbers(SubSeq(a, k + 2, Len(a)))
            IN IF IsSome(eda)
               THEN Some(ArticleNumber(KanjiNumber(SubSeq(a, 1, k), 0, 0),
                                       Unwrap(eda)))
               ELSE None

-----------------------------------------------------------------------------
(* find_joukou *)

target_c ==
  {"dai", "jou", "kou", "no", "NO", "1", "2", "3", "4", "5", "6", "7", "8",
   "9", "10", "100", "1000"}

\* the scan loop without the skipping of parenthesised runs: a bracket is a
\* character like any other and ends the scan
RECURSIVE joukou_scan_no_paren(_, _, _, _, _)
joukou_scan_no_paren(t, i, s, paren_depth, end) ==
  IF i >= Len(t) THEN [s |-> s, end |-> end, panic |-> FALSE]
  ELSE IF CharAt(t, i) \in target_c
       THEN joukou_scan_no_paren(t, i + 1, Append(s, CharAt(t, i)), paren_depth, i)
       ELSE [s |-> s, end |-> end, panic |-> FALSE]

\* the scan loop.  paren_depth is a usize: with overflow checks
\* "paren_depth -= 1" at 0 panics; without them it wraps to 2^64 - 1, which
\* the model writes -1 (the texts are far shorter than 2^64, so the wrapped
\* depth is greater than 0 exactly when the model's depth is not 0)
RECURSIVE joukou_scan(_, _, _, _, _)
joukou_scan(t, i, s, paren_depth, end) ==
  IF i >= Len(t) THEN [s |-> s, end |-> end, panic |-> FALSE]
  ELSE
    LET c == CharAt(t, i) IN
    IF c = "(" THEN joukou_scan(t, i + 1, s, paren_depth + 1, end)
    ELSE IF c = ")"
    THEN IF paren_depth = 0 /\ overflow_checks
         THEN [s |-> s, end |-> end, panic |-> TRUE]
         ELSE joukou_scan(t, i + 1, s, paren_depth - 1, end)
    ELSE IF paren_depth # 0 THEN joukou_scan(t, i + 1, s, paren_depth, end)
    ELSE IF c \in target_c THEN joukou_scan(t, i + 1, Append(s, c), paren_depth, i)
    ELSE [s |-> s, end |-> end, panic |-> FALSE]

RECURSIVE trim_end_matches(_, _)
trim_end_matches(s, c) ==
  IF s # <<>> /\ s[Len(s)] = c
  THEN trim_end_matches(SubSeq(s, 1, Len(s) - 1), c)
  ELSE s

\* the removal that moves end back by two for each particle
joukou_trim_by_two(scan) ==
  LET no == EndsWith(scan.s, <<"no">>)
      s1 == IF no THEN trim_end_matches(scan.s, "no") ELSE scan.s
      end1 == IF no THEN scan.end - 2 ELSE scan.end
      NO == EndsWith(s1, <<"NO">>)
      s2 == IF NO THEN trim_end_matches(s1, "NO") ELSE s1
      end2 == IF NO THEN end1 - 2 ELSE end1
  IN [s |-> s2, end |-> end2,
      panic |-> scan.panic \/ (overflow_checks /\ end2 < 0)]

\* the removal of a trailing "no", then of a trailing "NO"; "end -= 1" is a
\* usize subtraction
joukou_trim(scan) ==
  LET no == EndsWith(scan.s, <<"no">>)
      s1 == IF no THEN trim_end_matches(scan.s, "no") ELSE scan.s
      end1 == IF no THEN scan.end - 1 ELSE scan.end
      NO == EndsWith(s1, <<"NO">>)
      s2 == IF NO THEN trim_end_matches(s1, "NO") ELSE s1
      end2 == IF NO THEN end1 - 1 ELSE end1
  IN [s |-> s2, end |-> end2,
      panic |-> scan.panic \/ (overflow_checks /\ end2 < 0)]

RECURSIVE split_dai(_, _)
\* str::split on "dai": the pieces between the separators, empty ones included
split_dai(s, cur) ==
  IF s = <<>> THEN <<cur>>
  ELSE IF Head(s) = "dai" THEN <<cur>> \o split_dai(Tail(s), <<>>)
  ELSE split_dai(Tail(s), Append(cur, Head(s)))

\* the assignment of one parsed piece to the field its last character names
joukou_assign(l, a) ==
  LET num == parse_article_number(<<"dai">> \o a) IN
  IF a = <<>> \/ ~IsSome(num) THEN l
  ELSE IF EndsWith(a, <<"jou">>) THEN [l EXCEPT !.article_number = num]
  ELSE IF EndsWith(a, <<"kou">>) THEN [l EXCEPT !.paragraph_number = num]
  ELSE IF EndsWith(a, <<"hen">>) THEN [l EXCEPT !.part_number = num]
  ELSE IF EndsWith(a, <<"syou">>) THEN [l EXCEPT !.chapter_number = num]
  ELSE IF EndsWith(a, <<"setsu">>) THEN [l EXCEPT !.section_number = num]
  ELSE IF EndsWith(a, <<"kan">>) THEN [l EXCEPT !.subsection_number = num]
  ELSE IF EndsWith(a, <<"moku">>) THEN [l EXCEPT !.division_number = num]
  ELSE l

RECURSIVE joukou_assign_all(_, _, _)
joukou_assign_all(l, pieces, k) ==
  IF k > Len(pieces) THEN l
  ELSE joukou_assign_all(joukou_assign(l, pieces[k]), pieces, k + 1)

\* returns the end offset, the updated law, and whether the call panicked
find_joukou(t, position, l) ==
  LET trimmed == joukou_trim(joukou_scan(t, position.end, <<>>, 0, position.end))
  IN [end |-> trimmed.end,
      law |-> joukou_assign_all(l, split_dai(trimmed.s, <<>>), 1),
      panic |-> trimmed.panic]

-----------------------------------------------------------------------------
(* ord_article, parse_ref *)

RECURSIVE ord_eda(_, _)
\* the zip loop of ord_article_number, then the comparison of the lengths
ord_eda(a, b) ==
  IF a = <<>> \/ b = <<>>
  THEN IF Len(a) < Len(b) THEN "Less"
       ELSE IF Len(a) > Len(b) THEN "Greater" ELSE "Equal"
  ELSE IF Head(a) # Head(b)
       THEN IF Head(a) < Head(b) THEN "Less" ELSE "Greater"
       ELSE ord_eda(Tail(a), Tail(b))

ord_article_number(a, b) ==
  IF a.base_number = b.base_number
  THEN ord_eda(a.eda_numbers, b.eda_numbers)
  ELSE IF a.base_number < b.base_number THEN "Less" ELSE "Greater"

ord_paragraph(a, b) ==
  IF ~IsSome(a.paragraph_number) /\ ~IsSome(b.paragraph_number) THEN "Equal"
  ELSE IF ~IsSome(a.paragraph_number) THEN "Less"
  ELSE IF ~IsSome(b.paragraph_number) THEN "Greater"
  ELSE ord_article_number(Unwrap(a.paragraph_number), Unwrap(b.paragraph_number))

ord_article(a, b) ==
  IF ~IsSome(a.article_number) /\ IsSome(b.article_number) THEN "Less"
  ELSE IF IsSome(a.article_number) /\ ~IsSome(b.article_number) THEN "Greater"
  ELSE IF ~IsSome(a.article_number) THEN ord_paragraph(a, b)
  ELSE LET o == ord_article_number(Unwrap(a.article_number),
                                   Unwrap(b.article_number))
       IN IF o = "Equal" THEN ord_paragraph(a, b) ELSE o

\* the orders the HashMap hands its values over in, left unsorted
UnsortedParagraphs(ps) ==
  {f \in [1..Cardinality(ps) -> ps] : \A i, j \in DOMAIN f : i # j => f[i] # f[j]}

\* the orders sort_by(ord_article) can leave the paragraphs in: the sort is
\* stable and the HashMap hands its values over in any order
SortedParagraphs(ps) ==
  {f \in [1..Cardinality(ps) -> ps] :
     /\ \A i, j \in DOMAIN f : i # j => f[i] # f[j]
     /\ \A i \in DOMAIN f :
          i < Cardinality(ps) => ord_article(f[i], f[i + 1]) # "Greater"}

RECURSIVE link_all(_, _, _)
\* iter().filter_map(|l| linking_abb_and_full_name(l, full)).collect()
link_all(ms, full, k) ==
  IF k > Len(ms) THEN <<>>
  ELSE linking_abb_and_full_name(ms[k], full) \o link_all(ms, full, k + 1)

RECURSIVE emit_all(_, _, _, _)
\* the loop over the final list: find_joukou, then one Find per entry
emit_all(t, paragraph, l, k) ==
  IF k > Len(l) THEN [panic |-> FALSE, finds |-> <<>>]
  ELSE IF ~IsSome(l[k].find_law) THEN emit_all(t, paragraph, l, k + 1)
  ELSE
    LET j == find_joukou(t, l[k].position, Unwrap(l[k].find_law))
        rest == emit_all(t, paragraph, l, k + 1)
    IN IF j.panic THEN [panic |-> TRUE, finds |-> <<>>]
       ELSE [panic |-> rest.panic,
             finds |-> <<Find(j.law, paragraph,
                              Position(l[k].position.start, j.end))>>
                       \o rest.finds]

\* parse_paragraph with the anaphora linked against the name matches alone
parse_paragraph_names_only(paragraph, map, abbreviations) ==
  LET t == Unwrap(paragraph.paragraph_text)
      names == find_law_name(t, map, abbreviations)
      linked_abb_def_result == link_all(find_abb_def(t), names.lst, 1)
      with_abb == names.lst \o linked_abb_def_result
      linked_douhou_result == link_all(find_douhou(t), names.lst, 1)
      final == with_abb \o linked_douhou_result
      emitted == emit_all(t, paragraph, final, 1)
  IN IF names.panic
     THEN [panic |-> TRUE, find_law_name_result |-> <<>>,
           linked_abb_def_result |-> <<>>, finds |-> <<>>]
     ELSE [panic |-> emitted.panic, find_law_name_result |-> final,
           linked_abb_def_result |-> linked_abb_def_result,
           finds |-> emitted.finds]

\* the body of the loop of parse_ref for one paragraph
parse_paragraph(paragraph, map, abbreviations) ==
  LET t == Unwrap(paragraph.paragraph_text)
      names == find_law_name(t, map, abbreviations)
      linked_abb_def_result == link_all(find_abb_def(t), names.lst, 1)
      with_abb == names.lst \o linked_abb_def_result
      linked_douhou_result == link_all(find_douhou(t), with_abb, 1)
      final == with_abb \o linked_douhou_result
      emitted == emit_all(t, paragraph, final, 1)
  IN IF names.panic
     THEN [panic |-> TRUE, find_law_name_result |-> <<>>,
           linked_abb_def_result |-> <<>>, finds |-> <<>>]
     ELSE [panic |-> emitted.panic, find_law_name_result |-> final,
           linked_abb_def_result |-> linked_abb_def_result,
           finds |-> emitted.finds]

RECURSIVE parse_ref_loop(_, _, _, _, _)
\* the loop of parse_ref from the k-th paragraph of the sorted list on
parse_ref_loop(ps, map, k, abbreviations, acc) ==
  IF k > Len(ps) THEN [panic |-> FALSE, result |-> acc]
  ELSE LET r == parse_paragraph(ps[k], map, abbreviations)
       IN IF r.panic THEN [panic |-> TRUE, result |-> <<>>]
          ELSE parse_ref_loop(ps, map, k + 1,
                              abbreviations \o r.linked_abb_def_result,
                              acc \o r.finds)

\* parse_ref on a sorted paragraph list and a name table in one iteration
\* order
parse_ref(ps, map) == parse_ref_loop(ps, map, 1, <<>>, <<>>)

-----------------------------------------------------------------------------
(* Values of the variables a specification does not use *)

IdleParse ==
  /\ main_provision = <<>>
  /\ target = <<>>
  /\ paragraph_list = <<>>
  /\ idx = 0
  /\ find_law_name_result = <<>>
  /\ result = <<>>

IdleScan ==
  /\ overflow_checks = TRUE
  /\ text = <<>>
  /\ law_map = <<>>
  /\ law_name_list = <<>>

parseVars == <<main_provision, target, paragraph_list, idx,
               find_law_name_result, result>>
scanVars == <<overflow_checks, text, law_map, law_name_list>>

-----------------------------------------------------------------------------
(* Inputs of the list-level specifications *)

LawIds == {"A", "B"}

Spans == {Position(s, e) : s \in 0..MaxPos, e \in 1..MaxPos} \ 
           {p \in [start : 0..MaxPos, end : 1..MaxPos] : p.start >= p.end}

\* resolved matches: a non-empty span and a target law
Matches == {FindLawName(p, <<>>, Some(NewLaw(id))) : p \in Spans, id \in LawIds}

-----------------------------------------------------------------------------
(* SpecResolveDuplicates: a list grown from the empty list by               *)
(* lst = resolve_duplicates(&lst, &find), as find_law_name grows it         *)

InitResolveDuplicates ==
  /\ pc = "resolve_duplicates"
  /\ find_lst = <<>>
  /\ find = None
  /\ lst = <<>>
  /\ ret = None
  /\ IdleScan
  /\ IdleParse

ResolveDuplicates ==
  /\ pc = "resolve_duplicates"
  /\ Len(lst) < MaxList
  /\ \E cand \in Matches :
       /\ find_lst' = lst
       /\ find' = Some(cand)
       /\ lst' = resolve_duplicates(lst, cand)
  /\ UNCHANGED <<pc, ret, scanVars, parseVars>>

NextResolveDuplicates == ResolveDuplicates

SpecResolveDuplicates ==
  InitResolveDuplicates /\ [][NextResolveDuplicates]_vars

\* C2: resolve_duplicates applied to a list of pairwise non-overlapping spans
\* returns a list of pairwise non-overlapping spans, for every candidate.
C2_ResolveKeepsNoOverlap ==
  (pc = "resolve_duplicates" /\ IsSome(find) /\ NoOverlap(find_lst))
    => NoOverlap(lst)

-----------------------------------------------------------------------------
(* SpecLinking: linking_abb_and_full_name on a list in any order            *)

\* unresolved mentions: a span, the text of the mention, no target
Mentions ==
  {FindLawName(p, <<"dou", "hou">>, None) : p \in Spans}

InitLinking ==
  /\ pc = "linking_list"
  /\ find_lst = <<>>
  /\ find = None
  /\ lst = <<>>
  /\ ret = None
  /\ IdleScan
  /\ IdleParse

\* the law ids of the entries of the caller's list, one per list index
LinkingLawIds == <<"A", "B", "C", "D", "E", "F">>

\* the caller's list: resolved matches in any list order, each with a target
\* of its own
LinkingPush ==
  /\ pc = "linking_list"
  /\ Len(find_lst) < MaxList
  /\ \E p \in Spans :
       find_lst' =
         Append(find_lst,
                FindLawName(p, <<>>, Some(NewLaw(LinkingLawIds[Len(find_lst) + 1]))))
  /\ UNCHANGED <<pc, find, lst, ret, scanVars, parseVars>>

Linking ==
  /\ pc = "linking_list"
  /\ \E abb_info \in Mentions :
       /\ find' = Some(abb_info)
       /\ ret' = linking_abb_and_full_name(abb_info, find_lst)
  /\ pc' = "linking_done"
  /\ UNCHANGED <<find_lst, lst, scanVars, parseVars>>

NextLinking == LinkingPush \/ Linking

SpecLinking == InitLinking /\ [][NextLinking]_vars

\* indices of the entries that end at or before the mention's start
Preceding(m, l) == {i \in 1..Len(l) : l[i].position.end <= m.position.start}
\* of those, the ones with the greatest end offset
Nearest(m, l) ==
  {i \in Preceding(m, l) :
     \A j \in Preceding(m, l) : l[j].position.end <= l[i].position.end}

\* C3: the mention returned keeps M's span and text and carries the target of
\* an entry with the greatest end among the entries ending at or before
\* M.start; an entry ending after M.start is never chosen.
C3_LinksNearestPreceding ==
  (pc = "linking_done" /\ Preceding(Unwrap(find), find_lst) # {}) =>
    /\ IsSome(ret)
    /\ Unwrap(ret).position = Unwrap(find).position
    /\ Unwrap(ret).match_string = Unwrap(find).match_string
    /\ \E i \in Nearest(Unwrap(find), find_lst) :
         Unwrap(ret).find_law = find_lst[i].find_law

\* the case of the test check_linking: an entry ends after the mention starts,
\* two entries precede it, and the nearer one is not the last of the list
C3_Witness ==
  /\ pc = "linking_done"
  /\ IsSome(ret)
  /\ \E i, j, k \in 1..Len(find_lst) :
       /\ i < j
       /\ i \in Nearest(Unwrap(find), find_lst)
       /\ j \in Preceding(Unwrap(find), find_lst)
       /\ j \notin Nearest(Unwrap(find), find_lst)
       /\ find_lst[j].find_law # find_lst[i].find_law
       /\ find_lst[k].position.end > Unwrap(find).position.start
       /\ Unwrap(ret).find_law = find_lst[i].find_law

-----------------------------------------------------------------------------
(* SpecNameNumber: resolve_name_and_number on a match list in any order     *)

\* 民法（法律第一号）、刑法（法律第二号）、商法
NameNumberText ==
  <<"min", "hou", "(", "hou", "ritsu", "dai", "1", "gou", ")", ",", "u5211", "hou", "(", "hou", "ritsu", "dai", "2", "gou", ")", ",", "u5546", "hou">>

\* the matches of that text: two names each followed by its bracketed
\* number, and a third name
NameNumberMatch(s, e, id) ==
  FindLawName(Position(s, e), Slice(NameNumberText, s, e), Some(NewLaw(id)))

NameNumberPool ==
  {NameNumberMatch(0, 2, "A"), NameNumberMatch(3, 8, "A"),
   NameNumberMatch(10, 12, "B"), NameNumberMatch(13, 18, "B"),
   NameNumberMatch(20, 22, "C")}

InitNameNumber ==
  /\ pc = "name_number_list"
  /\ overflow_checks = TRUE
  /\ text = NameNumberText
  /\ law_map = <<>>
  /\ law_name_list = <<>>
  /\ find_lst = <<>>
  /\ find = None
  /\ lst = <<>>
  /\ ret = None
  /\ IdleParse

\* the caller's list: matches of the text in any list order
NameNumberPush ==
  /\ pc = "name_number_list"
  /\ \E m \in NameNumberPool \ Range(find_lst) : find_lst' = Append(find_lst, m)
  /\ UNCHANGED <<pc, find, lst, ret, scanVars, parseVars>>

ResolveNameAndNumber ==
  /\ pc = "name_number_list"
  /\ LET r == resolve_name_and_number(find_lst, text) IN
       /\ lst' = r.lst
       /\ ret' = Some(r.panic)
  /\ pc' = "name_number_done"
  /\ UNCHANGED <<find_lst, find, scanVars, parseVars>>

NextNameNumber == NameNumberPush \/ ResolveNameAndNumber

SpecNameNumber == InitNameNumber /\ [][NextNameNumber]_vars

\* the pairs <<n, m>> of list indices of a name match and the number match
\* that repeats it in the bracket right after it
NameNumberPairs(l, t) ==
  {nm \in (1..Len(l)) \X (1..Len(l)) :
     LET N == l[nm[1]]
         M == l[nm[2]]
     IN /\ M.position.start = N.position.end + 1
        /\ CharIs(t, N.position.end, "(")
        /\ map_law_id(N.find_law) = map_law_id(M.find_law)
        /\ ~EndsWith(N.match_string, <<"gou">>)
        /\ EndsWith(M.match_string, <<"gou">>)}

\* C4: a list, in any order, that holds one name match N and the number match
\* M of its bracket comes back with M removed and every other entry kept in
\* its original relative order.
C4_NumberMatchRemoved ==
  (pc = "name_number_done" /\ Cardinality(NameNumberPairs(find_lst, text)) = 1)
    => \E nm \in NameNumberPairs(find_lst, text) :
         /\ ret = Some(FALSE)
         /\ lst = RemoveAt(find_lst, nm[2] - 1)

-----------------------------------------------------------------------------
(* SpecJoukou: find_joukou on a mention followed by a run of text pieces    *)

\* 第三条, の二, の, ノ, 第一項, 規定, （定）, ）, 第二章
JoukouPieces ==
  {<<"dai", "3", "jou">>,
   <<"no", "2">>,
   <<"no">>,
   <<"NO">>,
   <<"dai", "1", "kou">>,
   <<"ki", "tei">>,
   <<"(", "tei", ")">>,
   <<")">>,
   <<"dai", "2", "syou">>}

RECURSIVE PieceTexts(_)
PieceTexts(n) ==
  IF n = 0 THEN {<<>>}
  ELSE PieceTexts(n - 1) \cup
       {p \o t : p \in JoukouPieces, t \in PieceTexts(n - 1)}

\* 民法 at [0, 2), its target not yet numbered
JoukouMention ==
  FindLawName(Position(0, 2), <<"min", "hou">>, Some(NewLaw("A")))

InitJoukou ==
  /\ pc = "find_joukou"
  /\ overflow_checks \in BOOLEAN
  /\ text \in {JoukouMention.match_string \o t : t \in PieceTexts(MaxPieces)}
  /\ law_map = <<>>
  /\ law_name_list = <<>>
  /\ find_lst = <<>>
  /\ find = Some(JoukouMention)
  /\ lst = <<>>
  /\ ret = None
  /\ IdleParse

FindJoukou ==
  /\ pc = "find_joukou"
  /\ ret' = Some(find_joukou(text, Unwrap(find).position,
                             Unwrap(Unwrap(find).find_law)))
  /\ pc' = "find_joukou_done"
  /\ UNCHANGED <<find_lst, find, lst, scanVars, parseVars>>

NextJoukou == FindJoukou

SpecJoukou == InitJoukou /\ [][NextJoukou]_vars

StartsWith(t, prefix) ==
  Len(prefix) <= Len(t) /\ SubSeq(t, 1, Len(prefix)) = prefix

\* the text after the mention
Trailing(t, position) == SubSeq(t, position.end + 1, Len(t))

RECURSIVE CollectedAt(_, _, _)
\* the offsets of the characters of the numeral set met outside parentheses,
\* from offset i up to the first other character met outside parentheses
CollectedAt(t, i, depth) ==
  IF i >= Len(t) THEN <<>>
  ELSE IF CharAt(t, i) = "(" THEN CollectedAt(t, i + 1, depth + 1)
  ELSE IF CharAt(t, i) = ")"
       THEN IF depth = 0 THEN <<>> ELSE CollectedAt(t, i + 1, depth - 1)
  ELSE IF depth > 0 THEN CollectedAt(t, i + 1, depth)
  ELSE IF CharAt(t, i) \in target_c THEN <<i>> \o CollectedAt(t, i + 1, depth)
  ELSE <<>>

\* the numeral text find_joukou is left with after trimming
CapturedNumeral(t, position) ==
  joukou_trim(joukou_scan(t, position.end, <<>>, 0, position.end)).s

JoukouReturned == pc = "find_joukou_done" /\ ~Unwrap(ret).panic

\* C7: after a mention followed by 第三条の二の規定 the target's article is
\* the numeral of 第三条の二 (base 3, branch 2), and the の before 規定 is
\* not part of the captured numeral.
C7_BranchArticleCaptured ==
  (/\ JoukouReturned
   /\ StartsWith(Trailing(text, Unwrap(find).position),
                 <<"dai", "3", "jou", "no", "2", "no", "ki", "tei">>))
    => /\ Unwrap(ret).law.article_number = Some(ArticleNumber(3, <<2>>))
       /\ CapturedNumeral(text, Unwrap(find).position) = <<"dai", "3", "jou", "no", "2">>

\* C8: when a numeral is captured, the returned end is the exclusive end of
\* the span: one past the offset of the last character of the numeral.
C8_EndIsExclusive ==
  (JoukouReturned /\ CapturedNumeral(text, Unwrap(find).position) # <<>>)
    => Unwrap(ret).end =
         CollectedAt(text, Unwrap(find).position.end, 0)
           [Len(CapturedNumeral(text, Unwrap(find).position))] + 1

\* C9: when no numeral is left after trimming, the returned end is the
\* mention's end and the target's numbers are unchanged.
C9_NoNumeralKeepsEnd ==
  (JoukouReturned /\ CapturedNumeral(text, Unwrap(find).position) = <<>>)
    => /\ Unwrap(ret).end = Unwrap(find).position.end
       /\ Unwrap(ret).law = Unwrap(Unwrap(find).find_law)

-----------------------------------------------------------------------------
(* SpecFindLawName: find_law_name on every short text of an alphabet        *)

\* 法, 人, 民, 律, 第, 方
NameAlphabet == {"hou", "jin", "min", "ritsu", "dai", "kata"}

RECURSIVE TextsUpTo(_)
TextsUpTo(n) ==
  IF n = 0 THEN {<<>>}
  ELSE TextsUpTo(n - 1) \cup
       {Append(t, c) : t \in TextsUpTo(n - 1), c \in NameAlphabet}

InitFindLawName ==
  /\ pc = "find_law_name"
  /\ overflow_checks \in BOOLEAN
  /\ text \in TextsUpTo(MaxTextLen)
  \* the name table holds 民法; 法 is an abbreviation of an earlier paragraph
  /\ law_map = <<<<(<<"min", "hou">>), NewLaw("A")>>>>
  /\ law_name_list = <<FindLawName(Position(13, 14), <<"hou">>, Some(NewLaw("B")))>>
  /\ find_lst = <<>>
  /\ find = None
  /\ lst = <<>>
  /\ ret = None
  /\ IdleParse

FindLawNameCall ==
  /\ pc = "find_law_name"
  /\ LET r == find_law_name(text, law_map, law_name_list) IN
       /\ lst' = r.lst
       /\ ret' = Some(r.panic)
  /\ pc' = "find_law_name_done"
  /\ UNCHANGED <<find_lst, find, scanVars, parseVars>>

NextFindLawName == FindLawNameCall

SpecFindLawName == InitFindLawName /\ [][NextFindLawName]_vars

\* C10: no match of the one-character name 法 is accepted on the 法 of 法人,
\* wherever 法人 stands in the text, the end of the text included.
C10_NoMatchOnHoujin ==
  (pc = "find_law_name_done" /\ ret = Some(FALSE)) =>
    \A k \in 1..Len(lst) :
      lst[k].match_string = <<"hou">>
        => ~CharIs(text, lst[k].position.end, "jin")

\* the offsets at which 法律第 stands in the text
HouritsuDaiAt(t) ==
  {i \in 0..(Len(t) - 3) : Slice(t, i, i + 3) = <<"hou", "ritsu", "dai">>}

\* C12: no match of the one-character name 法 is accepted on a 法 that is
\* immediately followed by 律第.
C12_NoMatchOnHouritsuDai ==
  (pc = "find_law_name_done" /\ ret = Some(FALSE)) =>
    \A k \in 1..Len(lst) :
      lst[k].match_string = <<"hou">>
        => lst[k].position.start \notin HouritsuDaiAt(text)

\* 法律第 ends the text, a name match stands before it, and the call returned
C12_Witness ==
  /\ pc = "find_law_name_done"
  /\ ret = Some(FALSE)
  /\ Len(text) - 3 \in HouritsuDaiAt(text)
  /\ lst # <<>>

-----------------------------------------------------------------------------
(* SpecDouhou: find_douhou on every short text of an alphabet               *)

\* 同, 法, 令, 人, 律, 第
DouhouAlphabet == {"dou", "hou", "rei", "jin", "ritsu", "dai"}

RECURSIVE DouhouTextsUpTo(_)
DouhouTextsUpTo(n) ==
  IF n = 0 THEN {<<>>}
  ELSE DouhouTextsUpTo(n - 1) \cup
       {Append(t, c) : t \in DouhouTextsUpTo(n - 1), c \in DouhouAlphabet}

InitDouhou ==
  /\ pc = "find_douhou"
  /\ overflow_checks = TRUE
  /\ text \in DouhouTextsUpTo(MaxTextLen)
  /\ law_map = <<>>
  /\ law_name_list = <<>>
  /\ find_lst = <<>>
  /\ find = None
  /\ lst = <<>>
  /\ ret = None
  /\ IdleParse

FindDouhouCall ==
  /\ pc = "find_douhou"
  /\ lst' = find_douhou(text)
  /\ pc' = "find_douhou_done"
  /\ UNCHANGED <<find_lst, find, ret, scanVars, parseVars>>

NextDouhou == FindDouhouCall

SpecDouhou == InitDouhou /\ [][NextDouhou]_vars

\* C11: no anaphora candidate is reported on the 同法 of 同法人, wherever
\* 同法人 stands in the text, the end of the text included.
C11_NoCandidateOnDouhoujin ==
  pc = "find_douhou_done" =>
    \A k \in 1..Len(lst) :
      ~(/\ lst[k].match_string = <<"dou", "hou">>
        /\ CharIs(text, lst[k].position.end, "jin"))

-----------------------------------------------------------------------------
(* Spec: parse_ref over the paragraphs of a document                        *)

\* 陸上交通事業調整法（以下「法」という。）第二条第一項の政令で定める
P1 ==
  <<"u9678", "u4E0A", "u4EA4", "u901A", "u4E8B", "u696D", "u8ABF",
    "u6574", "hou", "(", "i", "ka", "[", "hou", "]", "u3068", "u3044",
    "u3046", ".", ")", "dai", "2", "jou", "dai", "1", "kou", "no", "sei",
    "rei", "u3067", "tei", "u3081", "u308B">>

\* 法第二条第一項の規定に基づき、都市計画法（昭和四十三年法律第百号）
\* 第四条第二項に規定する
P2 ==
  <<"hou", "dai", "2", "jou", "dai", "1", "kou", "no", "ki", "tei",
    "u306B", "u57FA", "u3065", "u304D", ",", "u90FD", "u5E02", "u8A08",
    "u753B", "hou", "(", "u662D", "u548C", "4", "10", "3", "u5E74", "hou",
    "ritsu", "dai", "100", "gou", ")", "dai", "4", "jou", "dai", "2",
    "kou", "u306B", "ki", "tei", "u3059", "u308B">>

ParagraphTexts ==
  {P1, P2,
   \* 民法例
   <<"min", "hou", "tatoe">>,
   \* 民法（以下「民法令」という。）
   <<"min", "hou", "(", "i", "ka", "[", "min", "hou", "rei", "]",
    "u3068", "u3044", "u3046", ".", ")">>,
   \* 民法第一条及び同法第二条
   <<"min", "hou", "dai", "1", "jou", "u53CA", "u3073", "dou", "hou",
    "dai", "2", "jou">>,
   \* 民法（以下「法」という。）第一条及び法第二条
   <<"min", "hou", "(", "i", "ka", "[", "hou", "]", "u3068", "u3044",
    "u3046", ".", ")", "dai", "1", "jou", "u53CA", "u3073", "hou", "dai",
    "2", "jou">>,
   \* 同法第一条及び民法第二条
   <<"dou", "hou", "dai", "1", "jou", "u53CA", "u3073", "min", "hou",
    "dai", "2", "jou">>,
   \* （民法第一条）
   <<"(", "min", "hou", "dai", "1", "jou", ")">>,
   \* 法
   <<"hou">>,
   \* 法ノの規定
   <<"hou", "NO", "no", "ki", "tei">>,
   \* 民法（以下「法例令」という。）、同法及び同法
   <<"min", "hou", "(", "i", "ka", "[", "hou", "tatoe", "rei", "]",
    "u3068", "u3044", "u3046", ".", ")", ",", "dou", "hou", "u53CA",
    "u3073", "dou", "hou">>}

LawX == NewLaw("X")
LawY == NewLaw("Y")

\* 陸上交通事業調整法
NameX == <<"u9678", "u4E0A", "u4EA4", "u901A", "u4E8B", "u696D", "u8ABF", "u6574", "hou">>
\* 都市計画法
NameY == <<"u90FD", "u5E02", "u8A08", "u753B", "hou">>
\* 昭和四十三年法律第百号, the statute number of LawY
NumberY ==
  <<"u662D", "u548C", "4", "10", "3", "u5E74", "hou", "ritsu", "dai", "100", "gou">>

\* 陸上交通事業調整法 -> LawX, 都市計画法 -> LawY
TableE2E == {<<NameX, LawX>>, <<NameY, LawY>>}

\* the same table with the statute number of LawY
TableE2ENumber == TableE2E \cup {<<NumberY, LawY>>}

\* 民法 -> A, 法例 -> B
TableGeneral ==
  {<<<<"min", "hou">>, NewLaw("A")>>,
   <<<<"hou", "tatoe">>, NewLaw("B")>>}

\* a HashMap iterates its entries in any order
IterationOrders(table) ==
  {f \in [1..Cardinality(table) -> table] :
     \A i, j \in DOMAIN f : i # j => f[i] # f[j]}

\* the law of the document under analysis
LawD == NewLaw("D")

\* the paragraph of key k: article 1, paragraph k of the document
Paragraph(k, t) ==
  [LawD EXCEPT !.article_number = Some(ArticleNumber(1, <<>>)),
               !.paragraph_number = Some(ArticleNumber(k, <<>>)),
               !.paragraph_text = Some(t)]

\* the paragraph index of a document: the law itself under key 0 (it has no
\* text) and one entry per paragraph
Documents ==
  UNION {{[k \in 0..n |-> IF k = 0 THEN LawD ELSE Paragraph(k, ts[k])] :
            ts \in [1..n -> ParagraphTexts]} : n \in 1..MaxParagraphs}

Init ==
  /\ pc = "sort"
  /\ overflow_checks \in BOOLEAN
  /\ main_provision = <<>>
  /\ target \in Documents
  /\ law_map \in IterationOrders(TableE2E) \cup IterationOrders(TableE2ENumber)
                   \cup IterationOrders(TableGeneral)
  /\ paragraph_list = <<>>
  /\ law_name_list = <<>>
  /\ idx = 0
  /\ find_law_name_result = <<>>
  /\ result = <<>>
  /\ text = <<>>
  /\ find_lst = <<>>
  /\ find = None
  /\ lst = <<>>
  /\ ret = None

\* the collect of the paragraphs with a text and the sort
Sort ==
  /\ pc = "sort"
  /\ paragraph_list' \in
       SortedParagraphs({l \in Range(target) : IsSome(l.paragraph_text)})
  /\ pc' = "loop"
  /\ UNCHANGED <<overflow_checks, text, law_map, law_name_list, find_lst, find,
                 lst, ret, main_provision, target, idx, find_law_name_result,
                 result>>

\* one turn of the loop over paragraph_list
ParseParagraph ==
  /\ pc = "loop"
  /\ idx < Len(paragraph_list)
  /\ \E paragraph \in {paragraph_list[idx + 1]} :
     \E r \in {parse_paragraph(paragraph, law_map, law_name_list)} :
        /\ text' = Unwrap(paragraph.paragraph_text)
        /\ IF r.panic
           THEN /\ pc' = "panic"
                /\ UNCHANGED <<idx, find_law_name_result, result, law_name_list>>
           ELSE /\ pc' = pc
                /\ idx' = idx + 1
                /\ find_law_name_result' =
                     Append(find_law_name_result, r.find_law_name_result)
                /\ result' = result \o r.finds
                /\ law_name_list' = law_name_list \o r.linked_abb_def_result
  /\ UNCHANGED <<overflow_checks, law_map, find_lst, find, lst, ret,
                 main_provision, target, paragraph_list>>

\* the return of result after the last paragraph
Return ==
  /\ pc = "loop"
  /\ idx = Len(paragraph_list)
  /\ pc' = "done"
  /\ UNCHANGED <<overflow_checks, text, law_map, law_name_list, find_lst, find,
                 lst, ret, main_provision, target, paragraph_list, idx,
                 find_law_name_result, result>>

Next == Sort \/ ParseParagraph \/ Return

Spec == Init /\ [][Next]_vars

\* C1: the final name-match list of every processed paragraph has no two
\* entries whose spans overlap without being identical.
C1_NoOverlapAfterParagraph ==
  \A k \in 1..Len(find_law_name_result) :
    NoPartialOverlap(find_law_name_result[k])

\* the name table is one of the two tables of the end-to-end scenario
IsE2ETable == Range(law_map) \in {TableE2E, TableE2ENumber}

\* the references emitted for the k-th paragraph processed
RefsFrom(k) == SelectSeq(result, LAMBDA f : f.from = paragraph_list[k])

TextOf(k) == Unwrap(paragraph_list[k].paragraph_text)

\* a law narrowed to an article and a paragraph
Numbered(l, article, paragraph) ==
  [l EXCEPT !.article_number = Some(ArticleNumber(article, <<>>)),
            !.paragraph_number = Some(ArticleNumber(paragraph, <<>>))]

\* the abbreviation state holds 法 -> LawX
HoldsHouLawX ==
  \E k \in 1..Len(law_name_list) :
    /\ law_name_list[k].match_string = <<"hou">>
    /\ law_name_list[k].find_law = Some(LawX)

\* offset of the first occurrence of name in t
FirstOccurrence(t, name) ==
  CHOOSE i \in 0..(Len(t) - Len(name)) :
    /\ Slice(t, i, i + Len(name)) = name
    /\ \A j \in 0..(i - 1) : Slice(t, j, j + Len(name)) # name

\* the offsets in P1 of the full name and of the 法 in the brackets, and in
\* P2 of 都市計画法 and of the statute number
P1NameStart == FirstOccurrence(P1, NameX)
P1AbbStart == FirstOccurrence(P1, <<"[">>) + 1
P2NameStart == FirstOccurrence(P2, NameY)
P2NumberStart == FirstOccurrence(P2, NumberY)

P1Processed == pc # "panic" /\ IsE2ETable /\ idx >= 1 /\ TextOf(1) = P1

\* C5 as stated: P1 yields one reference, to LawX article 2 paragraph 1 with
\* its span starting at the full name, and registers 法 -> LawX.
C5_P1OneReference ==
  P1Processed =>
    /\ Len(RefsFrom(1)) = 1
    /\ RefsFrom(1)[1].to = Numbered(LawX, 2, 1)
    /\ RefsFrom(1)[1].position.start = P1NameStart
    /\ HoldsHouLawX

\* C5 (amended): P1 yields two references -- one to LawX article 2
\* paragraph 1 whose span starts at the full name, and one to LawX without
\* numbers for the declared abbreviation 法 inside the brackets -- and after
\* P1 the abbreviation state holds 法 -> LawX.
C5_P1TwoReferences ==
  P1Processed =>
    /\ Len(RefsFrom(1)) = 2
    /\ RefsFrom(1)[1].to = Numbered(LawX, 2, 1)
    /\ RefsFrom(1)[1].position.start = P1NameStart
    /\ RefsFrom(1)[2].to = LawX
    /\ RefsFrom(1)[2].position.start = P1AbbStart
    /\ HoldsHouLawX

\* P1 has been processed as the first paragraph with the two-name table
C5_Witness ==
  /\ P1Processed
  /\ Range(law_map) = TableE2E
  /\ idx = 1
  /\ Len(result) = 2
  /\ Len(law_name_list) = 1

\* the pairs <<target, start offset>> of the references of paragraph k
TargetsFrom(k) ==
  {<<RefsFrom(k)[n].to, RefsFrom(k)[n].position.start>> :
     n \in 1..Len(RefsFrom(k))}

\* C6: P2 processed right after P1 yields a reference to LawX article 2
\* paragraph 1 for the leading 法, a reference to LawY article 4 paragraph 2
\* for 都市計画法, and no reference for the bracketed statute number.
C6_P2References ==
  \A k \in 2..Len(paragraph_list) :
    (/\ pc # "panic" /\ IsE2ETable /\ idx >= k
     /\ TextOf(k - 1) = P1 /\ TextOf(k) = P2)
      => /\ TargetsFrom(k) = {<<Numbered(LawX, 2, 1), 0>>,
                              <<Numbered(LawY, 4, 2), P2NameStart>>}
         /\ Len(RefsFrom(k)) = 2
         /\ \A n \in 1..Len(RefsFrom(k)) :
              RefsFrom(k)[n].position.start # P2NumberStart

\* P1 then P2 have been processed with the table that holds the statute
\* number of LawY, so that the number had a match to merge away
C6_Witness ==
  /\ pc = "done"
  /\ Range(law_map) = TableE2ENumber
  /\ Len(paragraph_list) = 2
  /\ TextOf(1) = P1
  /\ TextOf(2) = P2
  /\ Len(RefsFrom(2)) = 2
  /\ HoldsHouLawX

\* C13: every run of parse_ref on the same paragraphs and the same name table
\* returns the same list, whatever order the paragraph map and the name table
\* are iterated in.
C13_SameListInEveryOrder ==
  pc = "done" =>
    \A ps \in SortedParagraphs(Range(paragraph_list)) :
      \A map \in IterationOrders(Range(law_map)) :
        parse_ref(ps, map) = [panic |-> FALSE, result |-> result]

-----------------------------------------------------------------------------
(* SpecOrd: ord_article on the locators of one document                     *)

\* 1, 1の2, 1の2の1, 2
OrdNumerals ==
  {ArticleNumber(1, <<>>), ArticleNumber(1, <<2>>), ArticleNumber(1, <<2, 1>>),
   ArticleNumber(2, <<>>)}

\* the locators egov_xml_parse stores for a document: the law itself, its
\* chapters, its articles, and paragraphs with or without an article
OrdLocators ==
  {[LawD EXCEPT !.chapter_number = c, !.article_number = a,
                !.paragraph_number = p] :
     c \in {None, Some(ArticleNumber(1, <<>>))},
     a \in {None} \cup {Some(n) : n \in OrdNumerals},
     p \in {None} \cup {Some(ArticleNumber(k, <<>>)) : k \in 1..MaxParagraphs}}

InitOrd ==
  /\ pc = "ord_article"
  /\ find_lst \in [1..3 -> OrdLocators]
  /\ find = None
  /\ lst = <<>>
  /\ ret = None
  /\ IdleScan
  /\ IdleParse

\* ord_article on every pair of the three locators
OrdArticle ==
  /\ pc = "ord_article"
  /\ ret' = Some([i \in 1..3 |-> [j \in 1..3 |->
                   ord_article(find_lst[i], find_lst[j])]])
  /\ pc' = "ord_article_done"
  /\ UNCHANGED <<find_lst, find, lst, scanVars, parseVars>>

NextOrd == OrdArticle

SpecOrd == InitOrd /\ [][NextOrd]_vars

\* the i-th locator sorts before the j-th
SortsBefore(i, j) == Unwrap(ret)[i][j] = "Less"

\* C14: ord_article is a strict total order on the locators of a document:
\* no locator sorts before itself, of two distinct locators exactly one sorts
\* before the other, the relation is transitive, and a locator without an
\* article number sorts before every locator with one.
C14_StrictTotalOrder ==
  pc = "ord_article_done" =>
    /\ \A i \in 1..3 : ~SortsBefore(i, i)
    /\ \A i, j \in 1..3 :
         find_lst[i] # find_lst[j] => (SortsBefore(i, j) <=> ~SortsBefore(j, i))
    /\ \A i, j, k \in 1..3 :
         (SortsBefore(i, j) /\ SortsBefore(j, k)) => SortsBefore(i, k)
    /\ \A i, j \in 1..3 :
         (~IsSome(find_lst[i].article_number) /\ IsSome(find_lst[j].article_number))
           => SortsBefore(i, j)

-----------------------------------------------------------------------------
(* Spec: the order of processing and the abbreviation state                 *)

\* C15: the paragraphs are processed in Locator Ordering whatever order the
\* paragraph map hands them over in: the list that is walked is sorted by
\* ord_article, the source locators of the returned list never decrease, and
\* the references of one paragraph stand together.
C15_ProcessedInLocatorOrder ==
  /\ \A i, j \in 1..Len(paragraph_list) :
       i < j => ord_article(paragraph_list[i], paragraph_list[j]) # "Greater"
  /\ \A i, j \in 1..Len(result) :
       i < j => ord_article(result[i].from, result[j].from) # "Greater"
  /\ \A i, j, k \in 1..Len(result) :
       (i < k /\ k < j /\ result[i].from = result[j].from)
         => result[k].from = result[i].from

\* a document of two paragraphs has been processed and each of them has
\* references in the returned list
C15_Witness ==
  /\ pc = "done"
  /\ Len(paragraph_list) = 2
  /\ \A k \in 1..2 : Len(RefsFrom(k)) >= 2
  /\ TextOf(1) # TextOf(2)

\* the spans of the abbreviation declarations of a text: the text between
\* 以下「 and the first 」 after it, ending in 法, 令 or 規則 and not in 方法
\* or 命令, the declaration not lying inside the brackets of an earlier one
DeclaredAt(t) ==
  LET opened == {s \in 3..Len(t) : Slice(t, s - 3, s) = <<"i", "ka", "[">>}
      closes(s) ==
        {e \in (s + 1)..(Len(t) - 1) :
           /\ CharAt(t, e) = "]"
           /\ \A i \in s..(e - 1) : CharAt(t, i) # "]"
           /\ \/ EndsWith(Slice(t, s, e), <<"hou">>)
              \/ EndsWith(Slice(t, s, e), <<"rei">>)
              \/ EndsWith(Slice(t, s, e), <<"ki", "soku">>)
           /\ ~EndsWith(Slice(t, s, e), <<"kata", "hou">>)
           /\ ~EndsWith(Slice(t, s, e), <<"mei", "rei">>)}
  IN UNION {{Position(s, e) : e \in closes(s)} :
              s \in {s \in opened :
                       \A j \in opened :
                         j < s => \E i \in j..(s - 1) : CharAt(t, i) = "]"}}

\* the spans of 同法 and 同令 in a text
AnaphoraAt(t) ==
  {Position(s, s + 2) : s \in {i \in 0..(Len(t) - 2) :
     Slice(t, i, i + 2) \in {<<"dou", "hou">>, <<"dou", "rei">>}}}

\* the spans at which a name stands in a text without being suppressed
OccurrencesOf(t, name) ==
  {p \in {Position(s, s + Len(name)) : s \in 0..(Len(t) - Len(name))} :
     /\ Slice(t, p.start, p.end) = name
     /\ ~is_universal_name(t, name, p.start, p.end)}

Covers(p, q) == p.start <= q.start /\ q.end <= p.end

\* the abbreviations appended by the step
AppendedAbbreviations ==
  SubSeq(law_name_list', Len(law_name_list) + 1, Len(law_name_list'))

\* C16: a paragraph's turn leaves the abbreviation state as it was and
\* appends, once each, the paragraph's abbreviation declarations that have a
\* match before them, resolved, and none of its anaphora; the abbreviations of
\* the earlier paragraphs are matched in the paragraph, the ones it declares
\* itself are not.
C16_AbbreviationStateGrows ==
  [][(pc = "loop" /\ idx' = idx + 1) =>
       LET t == text'
           final == find_law_name_result'[idx']
           added == AppendedAbbreviations
           names == {law_map[k][1] : k \in 1..Len(law_map)}
                      \cup {law_name_list[k].match_string :
                              k \in 1..Len(law_name_list)}
       IN /\ SubSeq(law_name_list', 1, Len(law_name_list)) = law_name_list
          /\ \A k \in 1..Len(added) :
               /\ added[k].position \in DeclaredAt(t)
               /\ added[k].position \notin AnaphoraAt(t)
               /\ added[k].match_string =
                    Slice(t, added[k].position.start, added[k].position.end)
               /\ IsSome(added[k].find_law)
               /\ \A j \in 1..Len(added) :
                    added[j].position = added[k].position => j = k
          /\ \A p \in DeclaredAt(t) :
               (\E n \in 1..Len(final) :
                  /\ final[n].match_string \in names
                  /\ final[n].position \notin DeclaredAt(t) \cup AnaphoraAt(t)
                  /\ final[n].position.end <= p.start)
                 => \E k \in 1..Len(added) : added[k].position = p
          /\ \A k \in 1..Len(law_name_list) :
               \A p \in OccurrencesOf(t, law_name_list[k].match_string) :
                 \E n \in 1..Len(final) : Covers(final[n].position, p)
          /\ \A n \in 1..Len(final) :
               \/ final[n].match_string \in names
               \/ final[n].position \in DeclaredAt(t) \cup AnaphoraAt(t)
     ]_vars

\* 法 has been declared in the first paragraph and used there after its
\* declaration, and the second paragraph, which starts with 法, has been
\* processed
C16_Witness ==
  /\ pc = "done"
  /\ Len(paragraph_list) = 2
  /\ Len(law_name_list) = 1
  /\ law_name_list[1].match_string = <<"hou">>
  /\ law_name_list[1].position \in DeclaredAt(TextOf(1))
  /\ OccurrencesOf(TextOf(1), <<"hou">>) # {}
  /\ TextOf(2) = P2
  /\ \E n \in 1..Len(RefsFrom(2)) : RefsFrom(2)[n].position.start = 0

\* the declarations and anaphoric mentions of a text that no entry of the
\* paragraph's list ends at or before
Unpreceded(t, final) ==
  {p \in DeclaredAt(t) \cup AnaphoraAt(t) :
     \A n \in 1..Len(final) : final[n].position.end > p.start}

\* the references emitted by the step
EmittedReferences == SubSeq(result', Len(result) + 1, Len(result'))

\* C17: a declaration or an anaphoric mention that no match ends at or before
\* is dropped: it is not in the paragraph's list, no reference is emitted for
\* it, and it does not enter the abbreviation state.
C17_UnlinkedMentionDropped ==
  [][(pc = "loop" /\ idx' = idx + 1) =>
       \A p \in Unpreceded(text', find_law_name_result'[idx']) :
         /\ \A n \in 1..Len(find_law_name_result'[idx']) :
              find_law_name_result'[idx'][n].position # p
         /\ \A n \in 1..Len(EmittedReferences) :
              EmittedReferences[n].position.start # p.start
         /\ \A n \in 1..Len(AppendedAbbreviations) :
              AppendedAbbreviations[n].position # p
     ]_vars

\* a paragraph whose declaration has no match before it, and one whose
\* anaphoric mention stands before its only name match, have been processed
C17_Witness ==
  /\ pc = "done"
  /\ Len(paragraph_list) = 2
  /\ DeclaredAt(TextOf(1)) # {}
  /\ Unpreceded(TextOf(1), find_law_name_result[1]) = DeclaredAt(TextOf(1))
  /\ AnaphoraAt(TextOf(2)) # {}
  /\ Unpreceded(TextOf(2), find_law_name_result[2]) = AnaphoraAt(TextOf(2))
  /\ find_law_name_result[2] # <<>>

\* C18: parse_ref returns a list for every document and every name table: no
\* step of it aborts on an index out of range or an arithmetic underflow.
C18_ParseRefNeverAborts == pc # "panic"

-----------------------------------------------------------------------------
(* SpecByteMap: byte_to_char_index_map on every short text of characters    *)
(* of one, two, three and four bytes                                        *)

ByteMapAlphabet == {"a", "u00A7", "hou", "u20BB7"}

RECURSIVE ByteMapTextsUpTo(_)
ByteMapTextsUpTo(n) ==
  IF n = 0 THEN {<<>>}
  ELSE ByteMapTextsUpTo(n - 1) \cup
       {Append(t, c) : t \in ByteMapTextsUpTo(n - 1), c \in ByteMapAlphabet}

InitByteMap ==
  /\ pc = "byte_to_char_index_map"
  /\ overflow_checks = TRUE
  /\ text \in ByteMapTextsUpTo(MaxTextLen)
  /\ law_map = <<>>
  /\ law_name_list = <<>>
  /\ find_lst = <<>>
  /\ find = None
  /\ lst = <<>>
  /\ ret = None
  /\ IdleParse

ByteToCharIndexMap ==
  /\ pc = "byte_to_char_index_map"
  /\ ret' = Some(byte_to_char_index_map(text))
  /\ pc' = "byte_to_char_index_map_done"
  /\ UNCHANGED <<find_lst, find, lst, scanVars, parseVars>>

NextByteMap == ByteToCharIndexMap

SpecByteMap == InitByteMap /\ [][NextByteMap]_vars

\* the byte offsets at which a character of the text starts, and the
\* terminal offset
CharBoundaries(t) == {ByteIndex(t, k) : k \in 0..Len(t)}

\* the number of characters of the text that start before byte offset b
CharsBefore(t, b) == Cardinality({k \in 0..(Len(t) - 1) : ByteIndex(t, k) < b})

\* C19: the table has one entry per byte offset from 0 to the byte length N
\* of the text, and its entry at every character boundary, N included, is the
\* number of characters that start before that offset.
C19_ByteMapCountsCharacters ==
  pc = "byte_to_char_index_map_done" =>
    /\ Len(Unwrap(ret)) = StrLen(text) + 1
    /\ \A b \in CharBoundaries(text) : Unwrap(ret)[b + 1] = CharsBefore(text, b)

\* a text that mixes characters of different byte lengths has been mapped
C19_Witness ==
  /\ pc = "byte_to_char_index_map_done"
  /\ Len(text) >= 3
  /\ StrLen(text) > Len(text)
  /\ \E i, j \in 1..Len(text) : Utf8Len(text[i]) # Utf8Len(text[j])

-----------------------------------------------------------------------------
(* SpecNameNumber: several name/number pairs in one list                    *)

\* the list indices of the number matches of the qualifying pairs
NumberMatchIndices(l, t) == {nm[2] : nm \in NameNumberPairs(l, t)}

RECURSIVE WithoutIndices(_, _, _)
\* the list without the entries at the given indices, the others in order
WithoutIndices(l, drop, k) ==
  IF k > Len(l) THEN <<>>
  ELSE (IF k \in drop THEN <<>> ELSE <<l[k]>>) \o WithoutIndices(l, drop, k + 1)

\* every qualifying pair stands at neighbouring indices of the list
PairsAreNeighbours(l, t) ==
  \A nm \in NameNumberPairs(l, t) : abs_diff(nm[1], nm[2]) = 1

\* C20: a list that holds two or more qualifying pairs, each at neighbouring
\* indices, comes back without the number matches of those pairs and with
\* every other entry kept in order; no removal is out of range.
C20_EveryNumberMatchRemoved ==
  (/\ pc = "name_number_done"
   /\ Cardinality(NameNumberPairs(find_lst, text)) >= 2
   /\ PairsAreNeighbours(find_lst, text))
    => /\ ret = Some(FALSE)
       /\ lst = WithoutIndices(find_lst, NumberMatchIndices(find_lst, text), 1)

-----------------------------------------------------------------------------
(* SpecJoukou: classifiers other than 条 and 項, balanced parentheses        *)

\* C21: after a mention followed at once by 第二章 the target's chapter
\* number is 2, as 条 sets the article and 項 the paragraph.
C21_ChapterCaptured ==
  (/\ JoukouReturned
   /\ StartsWith(Trailing(text, Unwrap(find).position), <<"dai", "2", "syou">>))
    => Unwrap(ret).law.chapter_number = Some(ArticleNumber(2, <<>>))

-----------------------------------------------------------------------------
(* SpecResolveDuplicates: a candidate on the span of an entry               *)

\* the list indices of the entries whose span is the candidate's span
SameSpan(l, cand) == {k \in 1..Len(l) : l[k].position = cand.position}

\* C22: a candidate whose span equals the span of an entry e comes back in
\* e's place: the list keeps its length, holds the candidate where e stood,
\* and every other entry is unchanged.
C22_EqualSpanReplaced ==
  (pc = "resolve_duplicates" /\ IsSome(find)
     /\ SameSpan(find_lst, Unwrap(find)) # {})
    => \E k \in SameSpan(find_lst, Unwrap(find)) :
         lst = [find_lst EXCEPT ![k] = Unwrap(find)]

-----------------------------------------------------------------------------
(* Spec: the spans of the references                                        *)

\* C23: the span of every reference lies inside the text of its source
\* paragraph: 0 <= start <= end <= number of characters of the text.
C23_SpanInsideText ==
  \A n \in 1..Len(result) :
    /\ 0 <= result[n].position.start
    /\ result[n].position.start <= result[n].position.end
    /\ result[n].position.end <= Len(Unwrap(result[n].from.paragraph_text))

\* a reference has been emitted for a one-character mention that is followed
\* only by ノ and の, both trimmed
C23_Witness ==
  \E n \in 1..Len(result) :
    LET t == Unwrap(result[n].from.paragraph_text)
        p == result[n].position
    IN /\ p.start + 3 <= Len(t)
       /\ Slice(t, p.start, p.start + 3) = <<"hou", "NO", "no">>
       /\ p.end = p.start
       /\ result[n].to.article_number = None

-----------------------------------------------------------------------------
(* SpecSuppression: find_law_name with the abbreviations 則 and 法 on every *)
(* short text of an alphabet                                                *)

\* 院, 規, 則, 第, 」, 法
SuppressionAlphabet == {"in", "ki", "soku", "dai", "]", "hou"}

RECURSIVE SuppressionTextsUpTo(_)
SuppressionTextsUpTo(n) ==
  IF n = 0 THEN {<<>>}
  ELSE SuppressionTextsUpTo(n - 1) \cup
       {Append(t, c) : t \in SuppressionTextsUpTo(n - 1),
                       c \in SuppressionAlphabet}

InitSuppression ==
  /\ pc = "find_law_name"
  /\ overflow_checks \in BOOLEAN
  /\ text \in SuppressionTextsUpTo(MaxTextLen)
  /\ law_map = <<>>
  \* 則 and 法 are abbreviations of earlier paragraphs
  /\ law_name_list = <<FindLawName(Position(5, 6), <<"soku">>, Some(NewLaw("A"))),
                       FindLawName(Position(13, 14), <<"hou">>, Some(NewLaw("B")))>>
  /\ find_lst = <<>>
  /\ find = None
  /\ lst = <<>>
  /\ ret = None
  /\ IdleParse

NextSuppression == FindLawNameCall

SpecSuppression == InitSuppression /\ [][NextSuppression]_vars

\* C24: no match of a name ending in 則 is accepted when 第 follows it and
\* 院規 or 会規 stands right before it, the start of the text included.
C24_NoMatchAfterInKi ==
  (pc = "find_law_name_done" /\ ret = Some(FALSE)) =>
    \A k \in 1..Len(lst) :
      EndsWith(lst[k].match_string, <<"soku">>)
        => ~(/\ CharIs(text, lst[k].position.end, "dai")
             /\ lst[k].position.start >= 2
             /\ Slice(text, lst[k].position.start - 2, lst[k].position.start)
                  \in {<<"in", "ki">>, <<"kai", "ki">>})

\* C25: no match is accepted that the closing bracket 」 follows at once,
\* the end of the text included.
C25_NoMatchBeforeClosingBracket ==
  (pc = "find_law_name_done" /\ ret = Some(FALSE)) =>
    \A k \in 1..Len(lst) : ~CharIs(text, lst[k].position.end, "]")

-----------------------------------------------------------------------------
(* Spec: anaphora of a paragraph and the abbreviations it declares          *)

\* the entries of a paragraph's list that are not anaphora: the name matches
\* and the linked abbreviation declarations
Antecedents(t, final) ==
  SelectSeq(final, LAMBDA e : e.position \notin AnaphoraAt(t))

\* C26: every linked anaphoric mention of a processed paragraph carries the
\* target of the nearest entry before it among the name matches and the
\* linked abbreviation declarations of the paragraph; when that entry is an
\* abbreviation declared in the paragraph the mention has its target; no
\* anaphoric mention is an antecedent.
C26_AnaphoraAfterDeclaration ==
  \A k \in 1..idx :
    LET t == TextOf(k)
        final == find_law_name_result[k]
        full == Antecedents(t, final)
    IN \A n \in 1..Len(final) :
         final[n].position \in AnaphoraAt(t) =>
           /\ Nearest(final[n], full) # {}
           /\ \E i \in Nearest(final[n], full) :
                final[n].find_law = full[i].find_law
           /\ \A i \in Nearest(final[n], full) :
                full[i].position \in DeclaredAt(t) =>
                  final[n].find_law = full[i].find_law

\* a processed paragraph with two linked anaphoric mentions, both with the
\* target of the abbreviation declared before them, and a name match of
\* another law between the declaration's opening and the mentions
C26_Witness ==
  \E k \in 1..idx :
    LET t == TextOf(k)
        final == find_law_name_result[k]
        full == Antecedents(t, final)
    IN \E n, m \in 1..Len(final) :
         /\ n # m
         /\ final[n].position \in AnaphoraAt(t)
         /\ final[m].position \in AnaphoraAt(t)
         /\ \E i \in Nearest(final[n], full) \cap Nearest(final[m], full) :
              /\ full[i].position \in DeclaredAt(t)
              /\ final[n].find_law = full[i].find_law
              /\ final[m].find_law = full[i].find_law
              /\ \E j \in Preceding(final[n], full) :
                   /\ full[j].find_law # full[i].find_law
                   /\ full[j].position.start >= full[i].position.start

-----------------------------------------------------------------------------
(* SpecEnclosed: find_joukou on a mention that follows an opening           *)
(* parenthesis                                                              *)

\* ）, （, 第三条, 規定
EnclosedPieces ==
  {<<")">>, <<"(">>, <<"dai", "3", "jou">>, <<"ki", "tei">>}

RECURSIVE EnclosedTails(_)
EnclosedTails(n) ==
  IF n = 0 THEN {<<>>}
  ELSE EnclosedTails(n - 1) \cup
       {p \o t : p \in EnclosedPieces, t \in EnclosedTails(n - 1)}

\* 民法 at [1, 3), after （
EnclosedMention ==
  FindLawName(Position(1, 3), <<"min", "hou">>, Some(NewLaw("A")))

InitEnclosed ==
  /\ pc = "find_joukou"
  /\ overflow_checks \in BOOLEAN
  /\ text \in {<<"(">> \o EnclosedMention.match_string \o t :
                 t \in EnclosedTails(MaxPieces)}
  /\ law_map = <<>>
  /\ law_name_list = <<>>
  /\ find_lst = <<>>
  /\ find = Some(EnclosedMention)
  /\ lst = <<>>
  /\ ret = None
  /\ IdleParse

NextEnclosed == FindJoukou

SpecEnclosed == InitEnclosed /\ [][NextEnclosed]_vars

RECURSIVE BalancedFrom(_, _, _)
\* from offset i on, at nesting depth, every ） closes an earlier （ and every
\* （ is closed
BalancedFrom(t, i, depth) ==
  IF i >= Len(t) THEN depth = 0
  ELSE IF CharAt(t, i) = "(" THEN BalancedFrom(t, i + 1, depth + 1)
  ELSE IF CharAt(t, i) = ")"
       THEN depth > 0 /\ BalancedFrom(t, i + 1, depth - 1)
       ELSE BalancedFrom(t, i + 1, depth)

RECURSIVE EnclosingClose(_, _, _)
\* the offset of the ） that closes the parenthesis open at offset i, or the
\* length of the text when there is none
EnclosingClose(t, i, depth) ==
  IF i >= Len(t) THEN Len(t)
  ELSE IF CharAt(t, i) = "(" THEN EnclosingClose(t, i + 1, depth + 1)
  ELSE IF CharAt(t, i) = ")"
       THEN IF depth = 0 THEN i ELSE EnclosingClose(t, i + 1, depth - 1)
       ELSE EnclosingClose(t, i + 1, depth)

\* C27: on a text with balanced parentheses and the mention inside a
\* parenthesised run, the call returns, and it returns what it returns on the
\* text cut before the ） that encloses the mention: the scan ends there.
C27_ScanEndsAtEnclosingParenthesis ==
  (pc = "find_joukou_done" /\ BalancedFrom(text, 0, 0)) =>
    LET position == Unwrap(find).position
        cut == Slice(text, 0, EnclosingClose(text, position.end, 0))
        inside == find_joukou(cut, position, Unwrap(Unwrap(find).find_law))
    IN /\ ~Unwrap(ret).panic
       /\ Unwrap(ret).end = inside.end
       /\ Unwrap(ret).law = inside.law

-----------------------------------------------------------------------------
(* SpecScanOrder: find_law_name with a name table scanned in every order    *)

\* 民法例 -> C, 民法 -> A, 法例 -> B: the first name contains the other two,
\* which overlap on 法
TableContained ==
  {<<<<"min", "hou", "tatoe">>, NewLaw("C")>>,
   <<<<"min", "hou">>, NewLaw("A")>>,
   <<<<"hou", "tatoe">>, NewLaw("B")>>}

\* 民, 法, 例
ScanOrderAlphabet == {"min", "hou", "tatoe"}

RECURSIVE ScanOrderTextsUpTo(_)
ScanOrderTextsUpTo(n) ==
  IF n = 0 THEN {<<>>}
  ELSE ScanOrderTextsUpTo(n - 1) \cup
       {Append(t, c) : t \in ScanOrderTextsUpTo(n - 1),
                       c \in ScanOrderAlphabet}

InitScanOrder ==
  /\ pc = "find_law_name"
  /\ overflow_checks \in BOOLEAN
  /\ text \in ScanOrderTextsUpTo(MaxTextLen)
  /\ law_map \in IterationOrders(TableContained)
  /\ law_name_list = <<>>
  /\ find_lst = <<>>
  /\ find = None
  /\ lst = <<>>
  /\ ret = None
  /\ IdleParse

NextScanOrder == FindLawNameCall

SpecScanOrder == InitScanOrder /\ [][NextScanOrder]_vars

\* the spans of a list of matches with their targets
Entries(l) == {<<l[k].position, l[k].find_law>> : k \in 1..Len(l)}

\* C28: the list returned holds the same set of spans with their targets in
\* whatever order the names of the table are scanned.
C28_SameEntriesInEveryScanOrder ==
  (pc = "find_law_name_done" /\ ret = Some(FALSE)) =>
    \A order \in IterationOrders({law_map[k] : k \in 1..Len(law_map)}) :
      \E r \in {find_law_name(text, order, law_name_list)} :
        ~r.panic /\ Entries(r.lst) = Entries(lst)

-----------------------------------------------------------------------------
(* SpecRedeclared: parse_ref on documents whose first and third paragraph   *)
(* declare the abbreviation 法 for different laws                            *)

\* 民法 -> A, 刑法 -> B, 商法 -> C
TableRedeclared ==
  {<<<<"min", "hou">>, NewLaw("A")>>,
   <<<<"u5211", "hou">>, NewLaw("B")>>,
   <<<<"u5546", "hou">>, NewLaw("C")>>}

\* <name>（以下「<abbreviation>」という。）
Declaration(name, abbreviation) ==
  name \o <<"(", "i", "ka", "[">> \o abbreviation
       \o <<"]", "u3068", "u3044", "u3046", ".", ")">>

\* 商法（以下「法施行法」という。） or 商法
SecondParagraphTexts ==
  {Declaration(<<"u5546", "hou">>, <<"hou", "u65BD", "u884C", "hou">>),
   <<"u5546", "hou">>}

\* 法, 施, 行
RedeclaredAlphabet == {"hou", "u65BD", "u884C"}

RECURSIVE RedeclaredTextsUpTo(_)
RedeclaredTextsUpTo(n) ==
  IF n = 0 THEN {<<>>}
  ELSE RedeclaredTextsUpTo(n - 1) \cup
       {Append(t, c) : t \in RedeclaredTextsUpTo(n - 1),
                       c \in RedeclaredAlphabet}

\* 民法（以下「法」という。）, a second paragraph, 刑法（以下「法」という。）
\* and a short fourth paragraph
RedeclaredDocuments ==
  {[k \in 0..4 |->
      CASE k = 0 -> LawD
        [] k = 1 -> Paragraph(1, Declaration(<<"min", "hou">>, <<"hou">>))
        [] k = 2 -> Paragraph(2, second)
        [] k = 3 -> Paragraph(3, Declaration(<<"u5211", "hou">>, <<"hou">>))
        [] OTHER -> Paragraph(4, last)] :
     second \in SecondParagraphTexts,
     last \in RedeclaredTextsUpTo(MaxTextLen)}

InitRedeclared ==
  /\ pc = "sort"
  /\ overflow_checks \in BOOLEAN
  /\ main_provision = <<>>
  /\ target \in RedeclaredDocuments
  /\ law_map \in IterationOrders(TableRedeclared)
  /\ paragraph_list = <<>>
  /\ law_name_list = <<>>
  /\ idx = 0
  /\ find_law_name_result = <<>>
  /\ result = <<>>
  /\ text = <<>>
  /\ find_lst = <<>>
  /\ find = None
  /\ lst = <<>>
  /\ ret = None

SpecRedeclared == InitRedeclared /\ [][Next]_vars

\* the abbreviation state holds the text of entry j for the second time, with
\* another target than before, and entry j is the last one with that text
Redeclared(j) ==
  /\ \E i \in 1..(j - 1) :
       /\ law_name_list[i].match_string = law_name_list[j].match_string
       /\ law_name_list[i].find_law # law_name_list[j].find_law
  /\ \A i \in (j + 1)..Len(law_name_list) :
       law_name_list[i].match_string # law_name_list[j].match_string

\* C29: in a paragraph processed after the second declaration of an
\* abbreviation text (the paragraph declares nothing itself), every match of
\* that text has the target of the latest declaration, and no reference from
\* the paragraph that starts at an occurrence of the text has the law of an
\* earlier declaration.
C29_LatestDeclarationWins ==
  (idx >= 1 /\ DeclaredAt(TextOf(idx)) = {}) =>
    \A j \in 1..Len(law_name_list) :
      Redeclared(j) =>
        LET a == law_name_list[j].match_string
            final == find_law_name_result[idx]
        IN /\ \A n \in 1..Len(final) :
                final[n].match_string = a
                  => final[n].find_law = law_name_list[j].find_law
           /\ \A n \in 1..Len(RefsFrom(idx)) :
                (\E p \in OccurrencesOf(TextOf(idx), a) :
                   /\ p.start = RefsFrom(idx)[n].position.start
                   /\ \A m \in 1..Len(final) :
                        final[m].position.start = p.start
                          => final[m].position = p)
                  => RefsFrom(idx)[n].to.law_id =
                       Unwrap(law_name_list[j].find_law).law_id

-----------------------------------------------------------------------------
(* SpecEgov: egov_xml_parse, then the collect and sort of parse_ref          *)

\* the text forms of a numeral (crate japanese_law_xml_schema), one per
\* classifier: 第<number><classifier>, the branch numbers after の
NumeralTokens == <<"1", "2", "3", "4", "5", "6", "7", "8", "9">>

RECURSIVE eda_text(_)
eda_text(eda) ==
  IF eda = <<>> THEN <<>>
  ELSE <<"no", NumeralTokens[Head(eda)]>> \o eda_text(Tail(eda))

classified_text(num, classifier) ==
  <<"dai", NumeralTokens[num.base_number], classifier>> \o eda_text(num.eda_numbers)

part_text(num) == classified_text(num, "hen")
chapter_text(num) == classified_text(num, "syou")
section_text(num) == classified_text(num, "setsu")
subsection_text(num) == classified_text(num, "kan")
division_text(num) == classified_text(num, "moku")
article_text(num) == classified_text(num, "jou")
paragraph_text(num) == classified_text(num, "kou")

\* Law::number_text: the key under which a locator is stored
number_text(l) ==
  IF IsSome(l.part_number) THEN part_text(Unwrap(l.part_number))
  ELSE IF IsSome(l.chapter_number) THEN chapter_text(Unwrap(l.chapter_number))
  ELSE IF IsSome(l.section_number) THEN section_text(Unwrap(l.section_number))
  ELSE IF IsSome(l.subsection_number)
       THEN subsection_text(Unwrap(l.subsection_number))
  ELSE IF IsSome(l.division_number) THEN division_text(Unwrap(l.division_number))
  ELSE IF IsSome(l.article_number)
       THEN IF IsSome(l.paragraph_number)
            THEN article_text(Unwrap(l.article_number))
                   \o paragraph_text(Unwrap(l.paragraph_number))
            ELSE article_text(Unwrap(l.article_number))
  ELSE IF IsSome(l.paragraph_number)
       THEN paragraph_text(Unwrap(l.paragraph_number))
  ELSE <<>>

\* Law::set_numbers: number is a WithNumberArticle
set_numbers(l, number) ==
  [l EXCEPT !.part_number = number.part,
            !.chapter_number = number.chapter,
            !.section_number = number.section,
            !.subsection_number = number.subsection,
            !.division_number = number.division,
            !.article_number = Some(number.article.num),
            !.paragraph_number = None]

\* Law::set_numbers_from_toc
set_numbers_from_toc(l, toc) ==
  [l EXCEPT !.part_number = toc.part,
            !.chapter_number = toc.chapter,
            !.section_number = toc.section,
            !.subsection_number = toc.subsection,
            !.division_number = toc.division,
            !.article_number = toc.article,
            !.paragraph_number = None]

\* HashMap::insert: the value stored under an equal key is replaced
insert(law_data, key, value) ==
  [k \in DOMAIN law_data \cup {key} |-> IF k = key THEN value ELSE law_data[k]]

RECURSIVE egov_toc_loop(_, _, _, _)
\* the loop over toc_list
egov_toc_loop(l, toc_list, k, law_data) ==
  IF k > Len(toc_list) THEN law_data
  ELSE LET law_tmp == set_numbers_from_toc(l, toc_list[k])
       IN egov_toc_loop(l, toc_list, k + 1,
                        insert(law_data, number_text(law_tmp), law_tmp))

RECURSIVE egov_paragraph_loop(_, _, _, _)
\* the loop over the paragraphs of an article
egov_paragraph_loop(law_tmp, paragraph, k, law_data) ==
  IF k > Len(paragraph) THEN law_data
  ELSE LET law_tmp2 == [law_tmp EXCEPT
                          !.paragraph_number = Some(paragraph[k].num),
                          !.paragraph_text = Some(paragraph[k].text)]
       IN egov_paragraph_loop(law_tmp, paragraph, k + 1,
                              insert(law_data, number_text(law_tmp2), law_tmp2))

RECURSIVE egov_article_loop(_, _, _, _)
\* the loop over with_number_articles
egov_article_loop(l, with_number_articles, k, law_data) ==
  IF k > Len(with_number_articles) THEN law_data
  ELSE egov_article_loop(l, with_number_articles, k + 1,
         egov_paragraph_loop(set_numbers(l, with_number_articles[k]),
                             with_number_articles[k].article.paragraph, 1,
                             law_data))

RECURSIVE egov_para_list_loop(_, _, _, _)
\* the loop over one list of paragraphs that stand outside the articles
egov_para_list_loop(l, para_list, k, law_data) ==
  IF k > Len(para_list) THEN law_data
  ELSE LET law_tmp == [l EXCEPT !.paragraph_number = Some(para_list[k].num),
                                !.paragraph_text = Some(para_list[k].text)]
       IN egov_para_list_loop(l, para_list, k + 1,
            insert(law_data, paragraph_text(para_list[k].num), law_tmp))

RECURSIVE egov_paragraphs_loop(_, _, _, _)
\* the loop over paragraphs
egov_paragraphs_loop(l, paragraphs, k, law_data) ==
  IF k > Len(paragraphs) THEN law_data
  ELSE egov_paragraphs_loop(l, paragraphs, k + 1,
         egov_para_list_loop(l, paragraphs[k], 1, law_data))

\* the paragraph index egov_xml_parse returns: the law under the empty key,
\* then the entries of the table of contents, of the paragraphs of the
\* articles and of the paragraphs outside the articles
egov_xml_parse(l, main) ==
  egov_paragraphs_loop(l, main.paragraphs, 1,
    egov_article_loop(l, main.with_number_articles, 1,
      egov_toc_loop(l, main.toc_list, 1, insert(<<>>, <<>>, l))))

\* the paragraphs 1..n of an article, each with the text 法
EgovParagraphs(n) ==
  [k \in 1..n |-> [num |-> ArticleNumber(k, <<>>), text |-> <<"hou">>]]

\* an article 1 or 2 with up to MaxParagraphs paragraphs, in chapter 1 or in
\* no chapter
EgovArticles ==
  {[part |-> None, chapter |-> c, section |-> None, subsection |-> None,
    division |-> None,
    article |-> [num |-> ArticleNumber(a, <<>>), paragraph |-> EgovParagraphs(n)]] :
     c \in {None, Some(ArticleNumber(1, <<>>))},
     a \in 1..2,
     n \in 1..MaxParagraphs}

\* one article, or two articles of different numbers
EgovArticleLists ==
  {<<a>> : a \in EgovArticles} \cup
  {l \in [1..2 -> EgovArticles] : l[1].article.num # l[2].article.num}

\* an entry of the table of contents
Toc(chapter, article) ==
  [part |-> None, chapter |-> chapter, section |-> None, subsection |-> None,
   division |-> None, article |-> article]

\* no table of contents, chapter 1, or chapter 1 and its article 1
EgovTocLists ==
  {<<>>,
   <<Toc(Some(ArticleNumber(1, <<>>)), None)>>,
   <<Toc(Some(ArticleNumber(1, <<>>)), None),
     Toc(Some(ArticleNumber(1, <<>>)), Some(ArticleNumber(1, <<>>)))>>}

MainProvisions ==
  [toc_list : EgovTocLists,
   with_number_articles : EgovArticleLists,
   paragraphs : {<<>>, <<EgovParagraphs(1)>>}]

InitEgov ==
  /\ pc = "egov_xml_parse"
  /\ main_provision \in MainProvisions
  /\ target = <<>>
  /\ paragraph_list = <<>>
  /\ idx = 0
  /\ find_law_name_result = <<>>
  /\ result = <<>>
  /\ find_lst = <<>>
  /\ find = None
  /\ lst = <<>>
  /\ ret = None
  /\ IdleScan

EgovXmlParse ==
  /\ pc = "egov_xml_parse"
  /\ target' = egov_xml_parse(LawD, main_provision)
  /\ pc' = "sort"
  /\ UNCHANGED <<overflow_checks, text, law_map, law_name_list, find_lst, find,
                 lst, ret, main_provision, paragraph_list, idx,
                 find_law_name_result, result>>

NextEgov == EgovXmlParse \/ Sort

SpecEgov == InitEgov /\ [][NextEgov]_vars

\* the paragraphs of the articles of the document, as <<article, paragraph>>
ArticleParagraphs ==
  UNION {{<<main_provision.with_number_articles[i].article.num,
            main_provision.with_number_articles[i].article.paragraph[j].num>> :
            j \in 1..Len(main_provision.with_number_articles[i].article.paragraph)} :
           i \in 1..Len(main_provision.with_number_articles)}

\* C30: every paragraph of an article of the document has an entry of its own
\* in the paragraph index (no paragraph is overwritten by another), and the
\* sorted list parse_ref loops over holds every one of them.
C30_EveryParagraphIndexed ==
  /\ pc \in {"sort", "loop"} =>
       \A ap \in ArticleParagraphs :
         \E key \in DOMAIN target :
           /\ target[key].article_number = Some(ap[1])
           /\ target[key].paragraph_number = Some(ap[2])
  /\ pc = "loop" =>
       \A ap \in ArticleParagraphs :
         \E k \in 1..Len(paragraph_list) :
           /\ paragraph_list[k].article_number = Some(ap[1])
           /\ paragraph_list[k].paragraph_number = Some(ap[2])

====
